---- MODULE Spec2Model ----
(***************************************************************************)
(* Model of the rclone Cloudinary backend (backend/cloudinary).            *)
(*                                                                         *)
(* Strings are sequences of one-character tokens.  The remote service is   *)
(* the environment: every request gets a response drawn from the set of    *)
(* responses the client library can hand back.  Each operation of Fs and   *)
(* Object is a call that advances one request at a time; `requests`,       *)
(* `resps` and `slept` log what the running call has sent, received and    *)
(* waited.                                                                 *)
(***************************************************************************)
EXTENDS Integers, Sequences, FiniteSets, TLC

VARIABLES
    optimistic,   \* f.opt.OptimisticSearch
    root,         \* f.root
    op,           \* the operation being executed ("idle" when none)
    pc,           \* position inside the operation
    arg,          \* arguments of the running call
    retry,        \* getCLDAsset: the retry parameter of the current query
    asset,        \* Remove: the record returned by getCLDAsset
    requests,     \* requests sent to the remote by the running call
    resps,        \* responses received by the running call
    slept,        \* time.Sleep calls of the running call, in seconds
    ret,          \* the value returned by the call
    o,            \* the Object (FileObject) the Object methods act on
    nextCursor,   \* List: local nextCursor
    entries,      \* List: local entries
    dirs,         \* List: local dirs
    remoteFolders,\* the remote's folder listing, one element per page
    remoteAssets, \* the remote's asset listing, one element per page
    i,            \* Open: loop counter
    count,        \* Open: requested byte count
    uploads,      \* every upload request sent so far, with the path it was sent for
    cld,          \* the remote account: its folders and its assets
    calls         \* the frames of the calls that run side by side, by caller

vars == <<optimistic, root, op, pc, arg, retry, asset, requests, resps, slept,
          ret, o, nextCursor, entries, dirs, remoteFolders, remoteAssets, i, count,
          uploads, cld, calls>>

-----------------------------------------------------------------------------
(* Strings and the path package                                            *)

Slash == "/"

RECURSIVE Collapse(_)
\* path.Clean on a slash-separated path without dot segments: repeated
\* separators become one and a trailing separator is dropped.
Collapse(s) ==
    IF Len(s) < 2 THEN s
    ELSE IF s[1] = Slash /\ s[2] = Slash THEN Collapse(Tail(s))
    ELSE <<s[1]>> \o Collapse(Tail(s))

RECURSIVE StripTrailing(_)
StripTrailing(s) ==
    IF Len(s) > 1 /\ s[Len(s)] = Slash THEN StripTrailing(SubSeq(s, 1, Len(s) - 1))
    ELSE s

Clean(s) == IF s = <<>> THEN <<".">> ELSE StripTrailing(Collapse(s))

\* path.Join of two elements: empty elements are ignored, the rest is cleaned.
Join(a, b) ==
    IF a = <<>> /\ b = <<>> THEN <<>>
    ELSE IF a = <<>> THEN Clean(b)
    ELSE IF b = <<>> THEN Clean(a)
    ELSE Clean(a \o <<Slash>> \o b)

\* index of the last separator of s, 0 when there is none
LastSlash(s) ==
    LET idx == {k \in 1..Len(s) : s[k] = Slash}
    IN  IF idx = {} THEN 0 ELSE CHOOSE k \in idx : \A j \in idx : j <= k

\* path.Dir
PathDir(s) == Clean(SubSeq(s, 1, LastSlash(s)))

\* path.Base
PathBase(s) ==
    IF s = <<>> THEN <<".">>
    ELSE LET t == StripTrailing(s)
         IN  IF t = <<Slash>> THEN t ELSE SubSeq(t, LastSlash(t) + 1, Len(t))

HasPrefix(s, p) == Len(s) >= Len(p) /\ SubSeq(s, 1, Len(p)) = p

HasSuffix(s, x) == Len(s) >= Len(x) /\ SubSeq(s, Len(s) - Len(x) + 1, Len(s)) = x

TrimPrefix(s, p) == IF HasPrefix(s, p) THEN SubSeq(s, Len(p) + 1, Len(s)) ELSE s

cldPathDir(somePath) ==
    IF somePath = <<>> \/ somePath = <<".">> THEN somePath
    ELSE LET dir == PathDir(somePath)
         IN  IF dir = <<".">> THEN <<>> ELSE dir

-----------------------------------------------------------------------------
(* Path codec                                                              *)

Amp == "&"
FwAmp == "FW_AMP"         \* U+FF06, the placeholder of the ampersand
DQuote == "DQUOTE"        \* the double quote character
FwDQuote == "FW_DQUOTE"   \* U+FF02, what the encoder writes for a double quote
FwSlash == "FW_SLASH"     \* U+FF0F, what the encoder writes for a slash in a name
QuoteRune == "QUOTE"      \* U+201B, the encoder's escape of an already wide rune
Ctl == "CTL"              \* a control character
CtlPic == "CTL_PIC"       \* U+24xx, what the encoder writes for the control character

RECURSIVE ReplaceAll(_, _, _)
\* strings.Replace(s, old, new, -1) for one-character old and new
ReplaceAll(s, old, new) ==
    IF s = <<>> THEN <<>>
    ELSE <<IF s[1] = old THEN new ELSE s[1]>> \o ReplaceAll(Tail(s), old, new)

RECURSIVE EncFromStandardName(_)
\* f.opt.Enc.FromStandardName: the configured MultiEncoder on one name
EncFromStandardName(s) ==
    IF s = <<>> THEN <<>>
    ELSE (CASE s[1] = DQuote -> <<FwDQuote>>
            [] s[1] = Slash -> <<FwSlash>>
            [] s[1] = Ctl -> <<CtlPic>>
            [] s[1] \in {FwDQuote, FwSlash, CtlPic, QuoteRune} -> <<QuoteRune, s[1]>>
            [] OTHER -> <<s[1]>>) \o EncFromStandardName(Tail(s))

RECURSIVE EncToStandardName(_)
\* f.opt.Enc.ToStandardName: the configured MultiEncoder's decoding of one name
EncToStandardName(s) ==
    IF s = <<>> THEN <<>>
    ELSE IF s[1] = QuoteRune /\ Len(s) > 1
            /\ s[2] \in {FwDQuote, FwSlash, CtlPic, QuoteRune}
         THEN <<s[2]>> \o EncToStandardName(Tail(Tail(s)))
    ELSE (CASE s[1] = FwDQuote -> <<DQuote>>
            [] s[1] = FwSlash -> <<Slash>>
            [] s[1] = CtlPic -> <<Ctl>>
            [] OTHER -> <<s[1]>>) \o EncToStandardName(Tail(s))

RECURSIVE EncFromStandardPath(_)
\* f.opt.Enc.FromStandardPath: every segment of the path encoded as a name
EncFromStandardPath(s) ==
    LET k == IF \E j \in 1..Len(s) : s[j] = Slash
             THEN CHOOSE j \in 1..Len(s) : s[j] = Slash /\ \A h \in 1..(j - 1) : s[h] # Slash
             ELSE 0
    IN  IF k = 0 THEN EncFromStandardName(s)
        ELSE EncFromStandardName(SubSeq(s, 1, k - 1)) \o <<Slash>>
             \o EncFromStandardPath(SubSeq(s, k + 1, Len(s)))

RECURSIVE EncToStandardPath(_)
\* f.opt.Enc.ToStandardPath: every segment of the path decoded as a name
EncToStandardPath(s) ==
    LET k == IF \E j \in 1..Len(s) : s[j] = Slash
             THEN CHOOSE j \in 1..Len(s) : s[j] = Slash /\ \A h \in 1..(j - 1) : s[h] # Slash
             ELSE 0
    IN  IF k = 0 THEN EncToStandardName(s)
        ELSE EncToStandardName(SubSeq(s, 1, k - 1)) \o <<Slash>>
             \o EncToStandardPath(SubSeq(s, k + 1, Len(s)))

FromStandardPath(s) == ReplaceAll(EncFromStandardPath(s), Amp, FwAmp)

FromStandardName(s) == ReplaceAll(EncFromStandardName(s), Amp, FwAmp)

ToStandardPath(s) == ReplaceAll(EncToStandardPath(s), FwAmp, Amp)

ToStandardName(s) == ReplaceAll(EncToStandardName(s), FwAmp, Amp)

\* Encoded root of the remote joined with the encoded dir
FromStandardFullPath(dir) == Join(FromStandardPath(root), FromStandardPath(dir))

-----------------------------------------------------------------------------
(* Values                                                                  *)

Nil == [nil |-> TRUE]

NoErr == ""

\* the errors the backend returns
ErrorObjectNotFound == "fs.ErrorObjectNotFound"
ErrDuplicate == "duplicate objects found"
ErrorDirNotFound == "fs.ErrorDirNotFound"
ErrorCantUploadEmptyFiles == "fs.ErrorCantUploadEmptyFiles"
ErrorCantSetModTime == "fs.ErrorCantSetModTime"
ErrTransport == "transport error"

\* the callers that may each run a call while the other one runs
Callers == {1, 2}

\* the frame of a caller that runs no call
IdleFrame == [op |-> "idle", pc |-> "idle"]

\* the roots an Fs is constructed with
Roots == {<<>>, <<"r">>}

\* the remote paths the calls are made with
Remotes == {<<"f">>, <<"a", Slash, "f">>, <<"a", Slash, Amp>>}

\* records the search API can return (admin.SearchAsset)
AssetPool ==
    { [publicID |-> <<"a", Slash, "f">>, resourceType |-> "image", type |-> "upload",
       bytes |-> 3, uploadedAt |-> "t1", secureURL |-> "url1", etag |-> "md5-1"],
      [publicID |-> <<"x">>, resourceType |-> "raw", type |-> "private",
       bytes |-> 5, uploadedAt |-> "t2", secureURL |-> "url2", etag |-> "md5-2"] }

\* the Object values a caller may hold
ObjectPool ==
    { [remote |-> r, size |-> a.bytes, modTime |-> a.uploadedAt, url |-> a.secureURL,
       md5sum |-> a.etag] : r \in Remotes, a \in AssetPool }

\* what f.cld.Admin.Search hands back: a transport error, an embedded error
\* payload, no asset, or one asset (MaxResults is 1) with or without a cursor
SearchResponses ==
    { [err |-> TRUE, errMsg |-> "", assets |-> <<>>, nextCursor |-> ""],
      [err |-> FALSE, errMsg |-> "Server error", assets |-> <<>>, nextCursor |-> ""],
      [err |-> FALSE, errMsg |-> "", assets |-> <<>>, nextCursor |-> ""] }
    \cup { [err |-> FALSE, errMsg |-> "", assets |-> <<a>>, nextCursor |-> c] :
             a \in AssetPool, c \in {"", "cursor"} }

\* what f.cld.Upload.Destroy hands back
DestroyResponses ==
    { [err |-> TRUE, errMsg |-> "", result |-> ""],
      [err |-> FALSE, errMsg |-> "Invalid signature", result |-> ""],
      [err |-> FALSE, errMsg |-> "", result |-> "not found"],
      [err |-> FALSE, errMsg |-> "", result |-> "ok"] }

-----------------------------------------------------------------------------
(* Asset Resolver: Fs.getCLDAsset, Fs.NewObject                            *)

\* the number of optimistic re-queries getCLDAsset allows
MaxRetry == 3

\* the search.Query getCLDAsset sends for a remote path
SearchQuery(remote) ==
    [api |-> "Search",
     assetFolder |-> FromStandardFullPath(cldPathDir(remote)),
     displayName |-> FromStandardName(PathBase(remote)),
     maxResults |-> 1]

\* ShouldRetry with the comparison off by one (retry <= 3)
ShouldRetryMore(r, n) == optimistic /\ Len(r.assets) = 0 /\ n < MaxRetry + 1

\* getCLDAsset: whether it sleeps a second and queries again
ShouldRetry(r, n) == optimistic /\ Len(r.assets) = 0 /\ n < MaxRetry

\* ResolveOutcome without the check of the continuation cursor
ResolveOutcomePick(r) ==
    IF r.err \/ Len(r.assets) = 0 THEN [err |-> ErrorObjectNotFound, asset |-> Nil]
    ELSE [err |-> NoErr, asset |-> r.assets[1]]

\* getCLDAsset: what it returns for the response it does not retry
ResolveOutcome(r) ==
    IF r.err \/ Len(r.assets) = 0 THEN [err |-> ErrorObjectNotFound, asset |-> Nil]
    ELSE IF r.nextCursor # "" THEN [err |-> ErrDuplicate, asset |-> Nil]
    ELSE [err |-> NoErr, asset |-> r.assets[1]]

\* the Object NewObject builds from the record
NewObjectFrom(remote, a) ==
    [remote |-> remote, size |-> a.bytes, modTime |-> a.uploadedAt,
     url |-> a.secureURL, md5sum |-> a.etag]

\* the frame of a call: what every call resets when it starts
StartCall(name, position, a) ==
    /\ pc = "idle"
    /\ op' = name
    /\ pc' = position
    /\ arg' = a
    /\ retry' = 0
    /\ asset' = Nil
    /\ requests' = <<>>
    /\ resps' = <<>>
    /\ slept' = <<>>
    /\ ret' = Nil
    /\ nextCursor' = <<>>
    /\ entries' = <<>>
    /\ dirs' = {}

\* the call returns `ret` to its caller; its frame is gone
Return ==
    /\ pc = "done"
    /\ op' = "idle"
    /\ pc' = "idle"
    /\ arg' = Nil
    /\ retry' = 0
    /\ asset' = Nil
    /\ requests' = <<>>
    /\ resps' = <<>>
    /\ slept' = <<>>
    /\ ret' = Nil
    /\ nextCursor' = <<>>
    /\ entries' = <<>>
    /\ dirs' = {}
    /\ remoteFolders' = <<>>
    /\ remoteAssets' = <<>>
    /\ i' = 0
    /\ count' = 0
    /\ UNCHANGED <<optimistic, root, calls, uploads, cld, o>>

CallNewObject ==
    /\ \E remote \in Remotes : StartCall("NewObject", "search", [remote |-> remote])
    /\ i' = 0
    /\ count' = 0
    /\ UNCHANGED <<optimistic, root, calls, uploads, cld, o, remoteFolders, remoteAssets>>

\* one query of getCLDAsset on behalf of NewObject
NewObjectSearch ==
    /\ op = "NewObject" /\ pc = "search"
    /\ \E r \in SearchResponses :
         /\ requests' = Append(requests, SearchQuery(arg.remote))
         /\ resps' = Append(resps, r)
         /\ IF ShouldRetry(r, retry)
            THEN /\ slept' = Append(slept, 1)
                 /\ retry' = retry + 1
                 /\ UNCHANGED <<pc, ret, asset>>
            ELSE /\ LET out == ResolveOutcome(r)
                    IN  /\ asset' = out.asset
                        /\ ret' = IF out.err # NoErr
                                  THEN [err |-> out.err, val |-> Nil]
                                  ELSE [err |-> NoErr,
                                        val |-> NewObjectFrom(arg.remote, out.asset)]
                 /\ pc' = "done"
                 /\ UNCHANGED <<slept, retry>>
    /\ UNCHANGED <<optimistic, root, calls, uploads, cld, op, arg, o, nextCursor, entries, dirs,
                   remoteFolders, remoteAssets, i, count>>

-----------------------------------------------------------------------------
(* Fs.Remove                                                               *)

\* the uploader.DestroyParams Remove builds from the resolved record
DestroyParams(a) ==
    [api |-> "Destroy", publicID |-> a.publicID, resourceType |-> a.resourceType,
     type |-> a.type]

\* DestroyOutcome without the check of res.Result
DestroyOutcomeLax(res) ==
    IF res.err THEN ErrTransport
    ELSE IF res.errMsg # "" THEN res.errMsg
    ELSE NoErr

\* DestroyOutcome that takes the result "not found" for a success
DestroyOutcomeNotFoundOk(res) ==
    IF res.err THEN ErrTransport
    ELSE IF res.errMsg # "" THEN res.errMsg
    ELSE IF res.result \notin {"ok", "not found"} THEN res.result
    ELSE NoErr

\* what Remove returns for the answer of Destroy
DestroyOutcome(res) ==
    IF res.err THEN ErrTransport
    ELSE IF res.errMsg # "" THEN res.errMsg
    ELSE IF res.result # "ok" THEN res.result
    ELSE NoErr

\* RemoveProceeds with the error of getCLDAsset ignored
RemoveProceedsAlways(out) == TRUE

\* Remove continues to Destroy only with a resolved record
RemoveProceeds(out) == out.err = NoErr

CallRemove ==
    /\ StartCall("Remove", "search", [remote |-> o.remote])
    /\ i' = 0
    /\ count' = 0
    /\ UNCHANGED <<optimistic, root, calls, uploads, cld, o, remoteFolders, remoteAssets>>

\* one query of getCLDAsset on behalf of Remove
RemoveSearch ==
    /\ op = "Remove" /\ pc = "search"
    /\ \E r \in SearchResponses :
         /\ requests' = Append(requests, SearchQuery(arg.remote))
         /\ resps' = Append(resps, r)
         /\ IF ShouldRetry(r, retry)
            THEN /\ slept' = Append(slept, 1)
                 /\ retry' = retry + 1
                 /\ UNCHANGED <<pc, ret, asset>>
            ELSE /\ LET out == ResolveOutcome(r)
                    IN  IF RemoveProceeds(out)
                        THEN /\ asset' = out.asset
                             /\ pc' = "destroy"
                             /\ UNCHANGED ret
                        ELSE /\ ret' = [err |-> out.err, val |-> Nil]
                             /\ pc' = "done"
                             /\ UNCHANGED asset
                 /\ UNCHANGED <<slept, retry>>
    /\ UNCHANGED <<optimistic, root, calls, uploads, cld, op, arg, o, nextCursor, entries, dirs,
                   remoteFolders, remoteAssets, i, count>>

\* the Destroy request of Remove and its answer
RemoveDestroy ==
    /\ op = "Remove" /\ pc = "destroy"
    /\ \E res \in DestroyResponses :
         /\ requests' = Append(requests, DestroyParams(asset))
         /\ resps' = Append(resps, res)
         /\ ret' = [err |-> DestroyOutcome(res), val |-> Nil]
    /\ pc' = "done"
    /\ UNCHANGED <<optimistic, root, calls, uploads, cld,
                   op, arg, retry, asset, slept, o, nextCursor,
                   entries, dirs, remoteFolders, remoteAssets, i, count>>

-----------------------------------------------------------------------------
(* Initial state and the specification of the resolver and of Remove       *)

Init ==
    /\ optimistic \in BOOLEAN
    /\ root \in Roots
    /\ o \in ObjectPool
    /\ op = "idle"
    /\ pc = "idle"
    /\ arg = Nil
    /\ retry = 0
    /\ asset = Nil
    /\ requests = <<>>
    /\ resps = <<>>
    /\ slept = <<>>
    /\ ret = Nil
    /\ nextCursor = <<>>
    /\ entries = <<>>
    /\ dirs = {}
    /\ remoteFolders = <<>>
    /\ remoteAssets = <<>>
    /\ i = 0
    /\ count = 0
    /\ uploads = {}
    /\ cld = [folders |-> {}, assets |-> {}]
    /\ calls = [p \in Callers |-> IdleFrame]

NextResolve ==
    \/ CallNewObject
    \/ NewObjectSearch
    \/ CallRemove
    \/ RemoveSearch
    \/ RemoveDestroy
    \/ Return

SpecResolve == Init /\ [][NextResolve]_vars

-----------------------------------------------------------------------------
(* Claims on the resolver and on Remove                                    *)

Resolving == op \in {"NewObject", "Remove"}

\* the number of search queries the running call has issued; they come first
NSearch == Cardinality({k \in DOMAIN requests : requests[k].api = "Search"})

\* getCLDAsset has returned to its caller
ResolveFinished == Resolving /\ pc \in {"destroy", "done"}

\* the error getCLDAsset returned (NoErr with a record)
ResolveErr == IF asset # Nil THEN NoErr ELSE ret.err

HasAsset(r) == Len(r.assets) >= 1

\* C1: a search response that carries an asset together with a non-empty
\* continuation cursor, on the first query or on any retry, ends the resolve
\* with the duplicate-objects error and without a record.
C1_AmbiguousFails ==
    Resolving =>
        \A k \in 1..NSearch :
            (HasAsset(resps[k]) /\ resps[k].nextCursor # "") =>
                /\ k = Len(resps)
                /\ pc = "done"
                /\ asset = Nil
                /\ ret = [err |-> ErrDuplicate, val |-> Nil]

C1_Witness ==
    /\ op = "NewObject" /\ pc = "done"
    /\ Len(resps) = 3
    /\ HasAsset(resps[3]) /\ resps[3].nextCursor # ""
    /\ ret.err = ErrDuplicate

\* what C4 says of the queries issued so far, whatever the last answer was
C4_Queries ==
    /\ NSearch <= 4
    /\ \A k \in 1..(NSearch - 1) : ~HasAsset(resps[k])
    /\ Len(slept) = (IF pc = "search" THEN NSearch ELSE NSearch - 1)
    /\ \A k \in DOMAIN slept : slept[k] = 1
    /\ ~optimistic => NSearch <= 1
    /\ ResolveFinished =>
         LET last == resps[NSearch]
         IN  /\ ~HasAsset(last) =>
                  /\ ResolveErr = ErrorObjectNotFound
                  /\ NSearch = (IF optimistic THEN 4 ELSE 1)
             /\ ResolveErr = ErrorObjectNotFound => ~HasAsset(last)

\* C4 as stated: at most 4 queries, re-querying only on an empty response
\* after a 1-second wait, and the first query that yields an asset gives the
\* record that is returned; NotFound only after the 4th empty response (the
\* first one without optimistic search).
C4_Original ==
    Resolving =>
        /\ C4_Queries
        /\ ResolveFinished =>
             (HasAsset(resps[NSearch]) =>
                 ResolveErr = NoErr /\ asset = resps[NSearch].assets[1])

\* C4 as amended: the first query that yields an asset ends the resolve, and
\* its record is returned when the response carries no continuation cursor.
C4_RetryBound ==
    Resolving =>
        /\ C4_Queries
        /\ ResolveFinished =>
             ((HasAsset(resps[NSearch]) /\ resps[NSearch].nextCursor = "") =>
                 ResolveErr = NoErr /\ asset = resps[NSearch].assets[1])

C4_Witness ==
    /\ op = "NewObject" /\ pc = "done" /\ optimistic
    /\ NSearch = 4
    /\ slept = <<1, 1, 1>>
    /\ ret.err = ErrorObjectNotFound

C4_WitnessFound ==
    /\ op = "NewObject" /\ pc = "done" /\ optimistic
    /\ NSearch = 3
    /\ ret.err = NoErr
    /\ ret.val = NewObjectFrom(arg.remote, resps[3].assets[1])

\* C8: Remove issues a destroy request only after its resolve returned a
\* record; when the resolve fails (not found, or ambiguous) Remove returns
\* that error and no destroy request is issued.
C8_ResolveBeforeDestroy ==
    op = "Remove" =>
        /\ \A k \in DOMAIN requests :
             requests[k].api = "Destroy" =>
                 /\ k = NSearch + 1
                 /\ NSearch >= 1
                 /\ HasAsset(resps[NSearch])
                 /\ resps[NSearch].nextCursor = ""
        /\ pc = "destroy" => HasAsset(resps[NSearch]) /\ asset = resps[NSearch].assets[1]
        /\ (pc = "done" /\ ~HasAsset(resps[NSearch])) =>
               ret.err = ErrorObjectNotFound /\ NSearch = Len(requests)
        /\ (pc = "done" /\ HasAsset(resps[NSearch]) /\ resps[NSearch].nextCursor # "") =>
               ret.err = ErrDuplicate /\ NSearch = Len(requests)

C8_Witness ==
    /\ op = "Remove" /\ pc = "done"
    /\ NSearch = 4 /\ Len(requests) = 4
    /\ ret.err = ErrorObjectNotFound

\* C9: Remove succeeds exactly when its resolve returned a record and the one
\* destroy request, carrying that record's public id, resource type and type,
\* came back without transport error, without error payload and with "ok".
C9_RemoveSuccess ==
    (op = "Remove" /\ pc = "done") =>
        LET n == Len(requests)
            destroys == {k \in DOMAIN requests : requests[k].api = "Destroy"}
        IN  /\ Cardinality(destroys) <= 1
            /\ ret.err = NoErr <=>
                 /\ destroys = {n}
                 /\ n >= 2
                 /\ HasAsset(resps[n - 1])
                 /\ requests[n].publicID = resps[n - 1].assets[1].publicID
                 /\ requests[n].resourceType = resps[n - 1].assets[1].resourceType
                 /\ requests[n].type = resps[n - 1].assets[1].type
                 /\ ~resps[n].err
                 /\ resps[n].errMsg = ""
                 /\ resps[n].result = "ok"
            /\ destroys # {} =>
                 /\ requests[n].publicID = resps[n - 1].assets[1].publicID
                 /\ requests[n].resourceType = resps[n - 1].assets[1].resourceType
                 /\ requests[n].type = resps[n - 1].assets[1].type

C9_Witness ==
    /\ op = "Remove" /\ pc = "done"
    /\ ret.err = NoErr
    /\ Len(requests) = 2
    /\ requests[2].api = "Destroy"
    /\ requests[2].publicID = <<"x">>

-----------------------------------------------------------------------------
(* Directory Lister: Fs.List                                               *)

\* the largest number of pages of the remote's folder and asset listings
MaxFolderPages == 3
MaxAssetPages == 2

\* the directories List is called with
Dirs == {<<>>, <<"a">>, <<"a", Slash, "b">>}

NoCursor == <<>>

\* folder paths below the listed prefix, as one page of the remote may hold them
FolderPageChoices ==
    { <<>>,
      << <<"x">> >>,
      << <<"y">>, <<"x", Slash, "z">> >> }

Digits == <<"1", "2", "3", "4">>

\* the j-th asset of page k of the remote's asset listing
AssetOnPage(k, j) ==
    [displayName |-> <<"f", Digits[k], Digits[j]>>, bytes |-> 10 * k + j,
     createdAt |-> "t0", secureURL |-> <<"url", Digits[k], Digits[j]>>]

AssetPageChoices(k) ==
    { <<AssetOnPage(k, 1)>>, <<AssetOnPage(k, 1), AssetOnPage(k, 2)>> }

\* the listings a remote can hold: m >= 1 folder pages and n >= 1 asset pages
FolderListings ==
    UNION { [1..m -> FolderPageChoices] : m \in 1..MaxFolderPages }

AssetListings ==
    UNION { {f \in [1..n -> UNION {AssetPageChoices(k) : k \in 1..n}] :
                \A k \in 1..n : f[k] \in AssetPageChoices(k)} : n \in 1..MaxAssetPages }

\* error payloads of the folders API
MsgNoFolder == <<"Can't find folder with path", "a">>
MsgOther == <<"Rate limit exceeded">>
MsgNoFolderInside == <<"Error:", "Can't find folder with path", "a">>
MsgNotEmpty == <<"Folder is not empty">>
NoFolderPrefix == <<"Can't find folder with path">>

\* the page of a listing of `pages` pages that a request with `cursor` asks
\* for: each listing has its own chain of cursors, tagged F and A; 0 is a
\* cursor the listing did not hand out, or a listing the remote does not have
PageOf(tag, pages, cursor) ==
    IF cursor = NoCursor THEN (IF pages = <<>> THEN 0 ELSE 1)
    ELSE IF cursor[1] = tag /\ cursor[2] \in 1..(Len(pages) - 1) THEN cursor[2] + 1
    ELSE 0

CursorAfter(tag, pages, k) == IF k < Len(pages) THEN <<tag, k>> ELSE NoCursor

\* what f.cld.Admin.SubFolders hands back for a request
SubFoldersResponses(req) ==
    LET k == PageOf("F", remoteFolders, req.nextCursor)
    IN  { [err |-> TRUE, errMsg |-> <<>>, folders |-> <<>>, nextCursor |-> NoCursor] }
        \cup { [err |-> FALSE, errMsg |-> m, folders |-> <<>>, nextCursor |-> NoCursor] :
                 m \in {MsgNoFolder, MsgOther, MsgNoFolderInside} }
        \cup (IF k = 0 THEN {}
              ELSE { [err |-> FALSE, errMsg |-> <<>>,
                      folders |-> [j \in 1..Len(remoteFolders[k]) |->
                                     [path |-> req.folder \o remoteFolders[k][j]]],
                      nextCursor |-> CursorAfter("F", remoteFolders, k)] })

\* what f.cld.Admin.AssetsByAssetFolder hands back for a request
AssetsResponses(req) ==
    LET k == PageOf("A", remoteAssets, req.nextCursor)
    IN  { [err |-> TRUE, errMsg |-> <<>>, assets |-> <<>>, nextCursor |-> NoCursor],
          [err |-> FALSE, errMsg |-> MsgOther, assets |-> <<>>, nextCursor |-> NoCursor] }
        \cup (IF k = 0 THEN {}
              ELSE { [err |-> FALSE, errMsg |-> <<>>, assets |-> remoteAssets[k],
                      nextCursor |-> CursorAfter("A", remoteAssets, k)] })

\* RemotePrefix built from dir alone, without the root of the filesystem
RemotePrefixNoRoot(dir) ==
    LET p == FromStandardPath(dir)
    IN  IF p # <<>> /\ ~HasSuffix(p, <<Slash>>) THEN p \o <<Slash>> ELSE p

\* remotePrefix of List
RemotePrefix(dir) ==
    LET p == FromStandardFullPath(dir)
    IN  IF p # <<>> /\ ~HasSuffix(p, <<Slash>>) THEN p \o <<Slash>> ELSE p

\* strings.Split(s, "/")[0]
FirstSegment(s) ==
    LET idx == {k \in 1..Len(s) : s[k] = Slash}
    IN  IF idx = {} THEN s
        ELSE SubSeq(s, 1, (CHOOSE k \in idx : \A j \in idx : k <= j) - 1)

\* the name List derives from a folder of the page
DirNameOf(folder, dir) ==
    FirstSegment(ToStandardPath(TrimPrefix(folder.path, RemotePrefix(dir))))

NewDir(remote) == [kind |-> "dir", remote |-> remote, modTime |-> "now"]

\* AddFolders without the dirs lookup: one entry per folder of the page
AddFoldersNoDedup(folders, dir, es, ds) ==
    [entries |-> es \o [j \in 1..Len(folders) |->
                           NewDir(Join(dir, DirNameOf(folders[j], dir)))],
     dirs |-> ds \cup { DirNameOf(folders[j], dir) : j \in 1..Len(folders) }]

RECURSIVE AddFolders(_, _, _, _)
\* the loop of List over results.Folders: entries and dirs after the page
AddFolders(folders, dir, es, ds) ==
    IF folders = <<>> THEN [entries |-> es, dirs |-> ds]
    ELSE LET dirName == DirNameOf(folders[1], dir)
         IN  IF dirName \notin ds
             THEN AddFolders(Tail(folders), dir,
                             Append(es, NewDir(Join(dir, dirName))), ds \cup {dirName})
             ELSE AddFolders(Tail(folders), dir, es, ds)

\* the Object List builds for an asset of the page
ListObjectOf(a, dir) ==
    [kind |-> "file",
     remote |-> IF dir # <<>> THEN Join(dir, ToStandardName(a.displayName))
                ELSE ToStandardName(a.displayName),
     size |-> a.bytes, modTime |-> a.createdAt, url |-> a.secureURL, md5sum |-> ""]

\* the loop of List over results.Assets
AddAssets(assets, dir, es) ==
    es \o [j \in 1..Len(assets) |-> ListObjectOf(assets[j], dir)]

\* FolderPageError that takes every error payload for a missing folder
FolderPageErrorAnyPayload(r) ==
    IF r.err THEN "failed to list sub-folders: transport error"
    ELSE IF r.errMsg # <<>> THEN ErrorDirNotFound
    ELSE NoErr

\* List folder loop: the error it returns for a page, NoErr to go on
FolderPageError(r) ==
    IF r.err THEN "failed to list sub-folders: transport error"
    ELSE IF r.errMsg # <<>>
         THEN IF HasPrefix(r.errMsg, NoFolderPrefix) THEN ErrorDirNotFound
              ELSE "failed to list sub-folders: error payload"
    ELSE NoErr

\* List asset loop: the error it returns for a page, NoErr to go on
AssetPageError(r) ==
    IF r.err THEN "failed to list assets: transport error" ELSE NoErr

CallList ==
    /\ \E dir \in Dirs : StartCall("List", "folders", [dir |-> dir])
    /\ remoteFolders' \in FolderListings
    /\ remoteAssets' \in AssetListings
    /\ i' = 0
    /\ count' = 0
    /\ UNCHANGED <<optimistic, root, calls, uploads, cld, o>>

\* one page of the folder listing
ListFolders ==
    /\ op = "List" /\ pc = "folders"
    /\ LET req == [api |-> "SubFolders", folder |-> RemotePrefix(arg.dir),
                   maxResults |-> 500, nextCursor |-> nextCursor]
       IN  \E r \in SubFoldersResponses(req) :
             /\ requests' = Append(requests, req)
             /\ resps' = Append(resps, r)
             /\ IF FolderPageError(r) # NoErr
                THEN /\ ret' = [err |-> FolderPageError(r), val |-> Nil]
                     /\ pc' = "done"
                     /\ UNCHANGED <<entries, dirs, nextCursor>>
                ELSE /\ LET after == AddFolders(r.folders, arg.dir, entries, dirs)
                        IN  /\ entries' = after.entries
                            /\ dirs' = after.dirs
                     /\ IF r.nextCursor = NoCursor
                        THEN /\ pc' = "assets"
                             /\ UNCHANGED nextCursor
                        ELSE /\ pc' = "folders"
                             /\ nextCursor' = r.nextCursor
                     /\ UNCHANGED ret
    /\ UNCHANGED <<optimistic, root, calls, uploads, cld,
                   op, arg, retry, asset, slept, o, remoteFolders,
                   remoteAssets, i, count>>

\* one page of the asset listing
ListAssets ==
    /\ op = "List" /\ pc = "assets"
    /\ LET req == [api |-> "AssetsByAssetFolder", assetFolder |-> RemotePrefix(arg.dir),
                   maxResults |-> 500, nextCursor |-> nextCursor]
       IN  \E r \in AssetsResponses(req) :
             /\ requests' = Append(requests, req)
             /\ resps' = Append(resps, r)
             /\ IF AssetPageError(r) # NoErr
                THEN /\ ret' = [err |-> AssetPageError(r), val |-> Nil]
                     /\ pc' = "done"
                     /\ UNCHANGED <<entries, nextCursor>>
                ELSE /\ entries' = AddAssets(r.assets, arg.dir, entries)
                     /\ IF r.nextCursor = NoCursor
                        THEN /\ pc' = "done"
                             /\ ret' = [err |-> NoErr,
                                        val |-> AddAssets(r.assets, arg.dir, entries)]
                             /\ UNCHANGED nextCursor
                        ELSE /\ pc' = "assets"
                             /\ nextCursor' = r.nextCursor
                             /\ UNCHANGED ret
    /\ UNCHANGED <<optimistic, root, calls, uploads, cld, op, arg, retry, asset, slept, o, dirs,
                   remoteFolders, remoteAssets, i, count>>

-----------------------------------------------------------------------------
(* Mkdir and Rmdir                                                         *)

\* the remote takes a folder path with or without a closing separator
TrimSlash(p) == IF p # <<>> /\ p[Len(p)] = Slash THEN SubSeq(p, 1, Len(p) - 1) ELSE p

\* the folder p and the folders above it
Ancestors(p) ==
    IF p = <<>> THEN {}
    ELSE {p} \cup { SubSeq(p, 1, k - 1) : k \in {j \in 2..Len(p) : p[j] = Slash} }

\* the folders of the account: the created ones and those an asset lies in
CldFolders(c) == c.folders \cup UNION { Ancestors(a.assetFolder) : a \in c.assets }

\* the error payload of an answer, as the error fmt.Errorf makes of it
PayloadError(m) ==
    IF m = MsgOther THEN "Rate limit exceeded"
    ELSE IF m = MsgNoFolder THEN "Can't find folder with path a"
    ELSE IF m = MsgNoFolderInside THEN "Error: Can't find folder with path a"
    ELSE "error payload"

\* the account c after it created the folder: the folders above it come with it
CldCreateFolder(c, folder) ==
    [c EXCEPT !.folders = @ \cup Ancestors(TrimSlash(folder))]

\* what f.cld.Admin.CreateFolder hands back, and the account after it
CreateFolderResponses(params) ==
    { [err |-> TRUE, errMsg |-> <<>>, cld |-> cld],
      [err |-> FALSE, errMsg |-> MsgOther, cld |-> cld] }
    \cup (IF TrimSlash(params.folder) = <<>> THEN {}
          ELSE { [err |-> FALSE, errMsg |-> <<>>,
                  cld |-> CldCreateFolder(cld, params.folder)] })

\* the error Mkdir returns for an answer
MkdirError(res) ==
    IF res.err THEN ErrTransport
    ELSE IF res.errMsg # <<>> THEN PayloadError(res.errMsg)
    ELSE NoErr

Mkdir ==
    /\ pc = "idle"
    /\ \E dir \in Dirs :
         LET params == [api |-> "CreateFolder", folder |-> FromStandardFullPath(dir)]
         IN  \E res \in CreateFolderResponses(params) :
               /\ arg' = [dir |-> dir]
               /\ requests' = <<params>>
               /\ resps' = <<[err |-> res.err, errMsg |-> res.errMsg]>>
               /\ ret' = [err |-> MkdirError(res), val |-> Nil]
               /\ cld' = res.cld
    /\ op' = "Mkdir"
    /\ pc' = "done"
    /\ UNCHANGED <<optimistic, root, calls, uploads, retry, asset, slept, o, nextCursor, entries,
                   dirs, remoteFolders, remoteAssets, i, count>>

\* what f.cld.Admin.DeleteFolder hands back, and the account after it: an
\* outage, a folder the account does not have, a folder that is not empty,
\* or the folder is deleted
DeleteFolderResponses(params) ==
    LET p == TrimSlash(params.folder)
        below == { q \in CldFolders(cld) : q # p /\ p \in Ancestors(q) }
    IN  { [err |-> TRUE, errMsg |-> <<>>, cld |-> cld],
          [err |-> FALSE, errMsg |-> MsgOther, cld |-> cld],
          [err |-> FALSE, errMsg |-> MsgNoFolderInside, cld |-> cld] }
        \cup (IF p \notin CldFolders(cld)
              THEN { [err |-> FALSE, errMsg |-> MsgNoFolder, cld |-> cld] }
              ELSE IF below # {} \/ \E a \in cld.assets : a.assetFolder = p
              THEN { [err |-> FALSE, errMsg |-> MsgNotEmpty, cld |-> cld] }
              ELSE { [err |-> FALSE, errMsg |-> <<>>,
                      cld |-> [cld EXCEPT !.folders = @ \ {p}]] })

\* the error Rmdir returns for an answer
RmdirError(res) ==
    IF res.err THEN ErrTransport
    ELSE IF res.errMsg # <<>>
         THEN IF HasPrefix(res.errMsg, NoFolderPrefix) THEN ErrorDirNotFound
              ELSE PayloadError(res.errMsg)
    ELSE NoErr

Rmdir ==
    /\ pc = "idle"
    /\ \E dir \in Dirs :
         LET params == [api |-> "DeleteFolder", folder |-> FromStandardFullPath(dir)]
         IN  \E res \in DeleteFolderResponses(params) :
               /\ arg' = [dir |-> dir]
               /\ requests' = <<params>>
               /\ resps' = <<[err |-> res.err, errMsg |-> res.errMsg]>>
               /\ ret' = [err |-> RmdirError(res), val |-> Nil]
               /\ cld' = res.cld
    /\ op' = "Rmdir"
    /\ pc' = "done"
    /\ UNCHANGED <<optimistic, root, calls, uploads, retry, asset, slept, o, nextCursor, entries,
                   dirs, remoteFolders, remoteAssets, i, count>>

\* the Object the Object methods of this model act on when it does not matter
SomeObject == CHOOSE x \in ObjectPool : TRUE

InitList == Init /\ ~optimistic /\ o = SomeObject

NextList ==
    \/ CallList
    \/ ListFolders
    \/ ListAssets
    \/ Mkdir
    \/ Rmdir
    \/ Return

SpecList == InitList /\ [][NextList]_vars

-----------------------------------------------------------------------------
(* Claims on List                                                          *)

ListSucceeded == op = "List" /\ pc = "done" /\ ret.err = NoErr

\* a response that is a page of a listing: no transport error, no error payload
IsPage(r) == ~r.err /\ r.errMsg = <<>>

\* the remote served every request that asked for a page of a listing with
\* that page: what went wrong, if anything, is not an outage of the remote
RemoteServedItsPages ==
    \A k \in DOMAIN requests :
        (PageOf(IF requests[k].api = "SubFolders" THEN "F" ELSE "A",
                IF requests[k].api = "SubFolders" THEN remoteFolders ELSE remoteAssets,
                requests[k].nextCursor) # 0) => IsPage(resps[k])

\* the first-segment names on the folder pages of the remote
RemoteFolderNames ==
    UNION { {FirstSegment(remoteFolders[k][j]) : j \in DOMAIN remoteFolders[k]} :
              k \in DOMAIN remoteFolders }

\* the assets on the asset pages of the remote
RemoteAssetSet ==
    UNION { {remoteAssets[k][j] : j \in DOMAIN remoteAssets[k]} :
              k \in DOMAIN remoteAssets }

EntryCount(es, e) == Cardinality({k \in DOMAIN es : es[k] = e})

\* C2: a successful List over a remote with m >= 1 folder pages and n >= 1
\* asset pages returns one Directory per distinct first-segment folder name
\* of the m pages and one FileObject per asset of the n pages, each exactly
\* once, and nothing else.
C2_ListingComplete ==
    (ListSucceeded /\ RemoteServedItsPages) =>
        /\ Len(ret.val) = Cardinality(RemoteFolderNames) + Cardinality(RemoteAssetSet)
        /\ \A n \in RemoteFolderNames :
             EntryCount(ret.val, [kind |-> "dir", remote |-> Join(arg.dir, n),
                                  modTime |-> "now"]) = 1
        /\ \A a \in RemoteAssetSet :
             Cardinality({k \in DOMAIN ret.val :
                            /\ ret.val[k].kind = "file"
                            /\ ret.val[k].remote = Join(arg.dir, a.displayName)
                            /\ ret.val[k].size = a.bytes
                            /\ ret.val[k].url = a.secureURL}) = 1

\* C3: List succeeds only after the folder listing and then the asset listing
\* each received a page with an empty cursor, and a page request that fails
\* (transport error or error payload) makes List return an error and no entries.
C3_NoPartialListing ==
    op = "List" =>
        /\ ListSucceeded =>
             \E kf, ka \in DOMAIN requests :
                /\ kf < ka /\ ka = Len(requests)
                /\ requests[kf].api = "SubFolders" /\ IsPage(resps[kf])
                /\ resps[kf].nextCursor = NoCursor
                /\ requests[ka].api = "AssetsByAssetFolder" /\ IsPage(resps[ka])
                /\ resps[ka].nextCursor = NoCursor
        /\ (\E k \in DOMAIN resps : ~IsPage(resps[k])) =>
             pc = "done" /\ ret.err # NoErr /\ ret.val = Nil

-----------------------------------------------------------------------------
(* Transfer Engine, download: Object.Open                                  *)

\* the number of attempts of the download loop
MaxAttempts == 7

\* the options Open is called with, a range option by what Decode returns
\* for it: no option, a range of 2 bytes from offset 1, a range from offset 1
\* to the end (limit -1), a seek to offset 1
OpenOptions ==
    { [type |-> "none", offset |-> 0, limit |-> 0],
      [type |-> "range", offset |-> 1, limit |-> 2],
      [type |-> "range", offset |-> 1, limit |-> -1],
      [type |-> "seek", offset |-> 1, limit |-> 0] }

\* count as the option loop of Open leaves it
CountOf(opt, size) ==
    CASE opt.type = "range" -> IF opt.limit < 0 THEN size - opt.offset ELSE opt.limit
      [] opt.type = "seek" -> size - opt.offset
      [] OTHER -> 0

\* a header value: absent, a number, or text that is no number
HdrAbsent == [present |-> FALSE, numeric |-> FALSE, value |-> 0]
HdrText == [present |-> TRUE, numeric |-> FALSE, value |-> 0]
HdrNum(n) == [present |-> TRUE, numeric |-> TRUE, value |-> n]

\* what o.fs.srv.Call hands back on attempt n: a transport error, or a
\* response with its headers and the body of that attempt
CallResponses(n, cnt, size) ==
    { [err |-> TRUE, acceptRanges |-> HdrAbsent, contentLength |-> HdrAbsent, body |-> 0] }
    \cup { [err |-> FALSE, acceptRanges |-> h[1], contentLength |-> h[2], body |-> n] :
             h \in { <<HdrText, HdrNum(cnt)>>, <<HdrText, HdrNum(size)>>,
                     <<HdrText, HdrText>>, <<HdrText, HdrAbsent>>,
                     <<HdrAbsent, HdrNum(cnt)>> } }

\* OpenVerdict with continue in the place of break
OpenVerdictNoBreak(r, cnt) ==
    IF r.err THEN "fail" ELSE "retry"

\* one pass of the download loop: "fail" returns the transport error, "break"
\* leaves the loop with this response, "retry" sleeps and goes round again
OpenVerdict(r, cnt) ==
    IF r.err THEN "fail"
    ELSE IF r.acceptRanges.present /\ r.contentLength.present
         THEN IF ~r.contentLength.numeric \/ r.contentLength.value # cnt
              THEN "retry" ELSE "break"
    ELSE "retry"

CallOpen ==
    /\ \E opt \in OpenOptions :
         /\ StartCall("Open", "attempt", [options |-> opt])
         /\ count' = CountOf(opt, o.size)
    /\ i' = 1
    /\ UNCHANGED <<optimistic, root, calls, uploads, cld, o, remoteFolders, remoteAssets>>

\* one pass of the download loop of Open, and the return when the loop ends
OpenAttempt ==
    /\ op = "Open" /\ pc = "attempt"
    /\ \E r \in CallResponses(i, count, o.size) :
         /\ requests' = Append(requests, [api |-> "GET", url |-> o.url,
                                          header |-> arg.options])
         /\ resps' = Append(resps, r)
         /\ LET v == OpenVerdict(r, count)
            IN  CASE v = "fail" ->
                       /\ ret' = [err |-> "failed download", val |-> Nil]
                       /\ pc' = "done"
                       /\ UNCHANGED <<slept, i>>
                  [] v = "break" ->
                       /\ ret' = [err |-> NoErr, val |-> r.body]
                       /\ pc' = "done"
                       /\ UNCHANGED <<slept, i>>
                  [] OTHER ->
                       /\ slept' = Append(slept, i)
                       /\ i' = i + 1
                       /\ IF i + 1 <= MaxAttempts
                          THEN UNCHANGED <<pc, ret>>
                          ELSE /\ ret' = [err |-> NoErr, val |-> r.body]
                               /\ pc' = "done"
    /\ UNCHANGED <<optimistic, root, calls, uploads, cld,
                   op, arg, retry, asset, o, nextCursor, entries,
                   dirs, remoteFolders, remoteAssets, count>>

InitOpen == Init /\ ~optimistic /\ root = <<>> /\ o = SomeObject

NextOpen ==
    \/ CallOpen
    \/ OpenAttempt
    \/ Return

SpecOpen == InitOpen /\ [][NextOpen]_vars

-----------------------------------------------------------------------------
(* Claims on Open                                                          *)

\* the byte count an option asks for
RequestedCount(opt, size) ==
    IF opt.type = "seek" \/ opt.limit < 0 THEN size - opt.offset ELSE opt.limit

\* a response that declares accept-ranges and a numeric content-length
Declares(r) ==
    ~r.err /\ r.acceptRanges.present /\ r.contentLength.present /\ r.contentLength.numeric

Mismatch(r, n) == Declares(r) /\ r.contentLength.value # n

Match(r, n) == Declares(r) /\ r.contentLength.value = n

\* a transport-successful response that lacks one of the two headers
Unverifiable(r) == ~r.err /\ (~r.acceptRanges.present \/ ~r.contentLength.present)

\* C5: with a range or seek option, when attempts 1..k-1 (k <= 7) declare a
\* content-length different from the requested count and attempt k declares
\* the requested count, exactly k requests are made and Open returns the body
\* of attempt k with no error.
C5_RangeRetry ==
    (op = "Open" /\ arg.options.type \in {"range", "seek"}) =>
        LET n == RequestedCount(arg.options, o.size)
        IN  \A k \in 1..7 :
              (/\ Len(resps) >= k
               /\ \A j \in 1..(k - 1) : Mismatch(resps[j], n)
               /\ Match(resps[k], n)) =>
                  /\ Len(requests) = k
                  /\ pc = "done"
                  /\ ret = [err |-> NoErr, val |-> resps[k].body]
                  /\ resps[k].body = k

C5_Witness ==
    /\ op = "Open" /\ pc = "done" /\ arg.options.type = "range"
    /\ Len(requests) = 3
    /\ Mismatch(resps[1], count) /\ Mismatch(resps[2], count) /\ Match(resps[3], count)
    /\ ret = [err |-> NoErr, val |-> 3]

C5_WitnessLast ==
    /\ op = "Open" /\ pc = "done" /\ arg.options.type = "seek"
    /\ Len(requests) = 7
    /\ \A j \in 1..6 : Mismatch(resps[j], count)
    /\ Match(resps[7], count)
    /\ ret = [err |-> NoErr, val |-> 7]

\* C6: when all 7 attempts return a content-length that does not match the
\* requested count, Open makes exactly 7 requests and returns a failure,
\* never a byte stream with a nil error.
C6_RangeExhausted ==
    (/\ op = "Open" /\ pc = "done"
     /\ Len(resps) = 7
     /\ \A j \in 1..7 : Mismatch(resps[j], RequestedCount(arg.options, o.size))) =>
        /\ Len(requests) = 7
        /\ ret.err # NoErr
        /\ ret.val = Nil

\* C7: a transport-successful response that lacks accept-ranges or
\* content-length is accepted as it is: Open returns its body right after
\* that attempt, without a wait and without a further request.
C7_UnverifiableAccepted ==
    op = "Open" =>
        \A k \in DOMAIN resps :
            Unverifiable(resps[k]) =>
                /\ Len(requests) = k
                /\ pc = "done"
                /\ ret = [err |-> NoErr, val |-> resps[k].body]
                /\ Len(slept) = k - 1

-----------------------------------------------------------------------------
(* Transfer Engine, upload: Fs.Put, Object.Update                          *)

\* the sizes a source declares (-1: unknown)
SrcSizes == {-1, 0, 10}

UpdateModeOption(b) == [type |-> "UpdateModeOption", updateMode |-> b]

\* the option lists Put and Update are called with
PutOptions ==
    { <<>>, <<UpdateModeOption(FALSE)>>, <<UpdateModeOption(TRUE)>>,
      <<[type |-> "HTTPOption", updateMode |-> FALSE]>> }

\* what f.cld.Upload.Upload hands back
UploadResponses ==
    { [err |-> TRUE, errMsg |-> "", bytes |-> 0, createdAt |-> "", secureURL |-> "",
       etag |-> ""],
      [err |-> FALSE, errMsg |-> "Invalid image file", bytes |-> 0, createdAt |-> "",
       secureURL |-> "", etag |-> ""],
      [err |-> FALSE, errMsg |-> "", bytes |-> 10, createdAt |-> "t3",
       secureURL |-> "url3", etag |-> "md5-3"],
      [err |-> FALSE, errMsg |-> "", bytes |-> 7, createdAt |-> "t4",
       secureURL |-> "url4", etag |-> "md5-4"] }

\* UpdateModeSet that looks at the option's type and not at its flag
UpdateModeSetAnyOption(options) ==
    \E k \in DOMAIN options : options[k].type = "UpdateModeOption"

\* the option loop of Put: whether overwrite and invalidate are requested
UpdateModeSet(options) ==
    \E k \in DOMAIN options :
        options[k].type = "UpdateModeOption" /\ options[k].updateMode

\* UploadParams whose identifier is the encoded leaf name alone
UploadParamsLeafID(remote, options) ==
    LET assetFolder == FromStandardFullPath(cldPathDir(remote))
        displayName == FromStandardName(PathBase(remote))
    IN  [api |-> "Upload", assetFolder |-> assetFolder, displayName |-> displayName,
         uploadPreset |-> "preset", overwrite |-> UpdateModeSet(options),
         invalidate |-> UpdateModeSet(options),
         publicID |-> displayName]

\* the uploader.UploadParams of Put
UploadParams(remote, options) ==
    LET assetFolder == FromStandardFullPath(cldPathDir(remote))
        displayName == FromStandardName(PathBase(remote))
    IN  [api |-> "Upload", assetFolder |-> assetFolder, displayName |-> displayName,
         uploadPreset |-> "preset", overwrite |-> UpdateModeSet(options),
         invalidate |-> UpdateModeSet(options),
         publicID |-> Join(assetFolder, displayName)]

\* PutRejects with the size check left out
PutRejectsNothing(size) == FALSE

\* Put refuses a source of this size before anything else
PutRejects(size) == size = 0

\* Put as a whole: the requests it sends, the answers, what it returns
PutOutcome(remote, size, options, resp) ==
    IF PutRejects(size)
    THEN [requests |-> <<>>, resps |-> <<>>, err |-> ErrorCantUploadEmptyFiles, val |-> Nil]
    ELSE LET sent == <<UploadParams(remote, options)>>
         IN  IF resp.err
             THEN [requests |-> sent, resps |-> <<resp>>,
                   err |-> "failed to upload to Cloudinary", val |-> Nil]
             ELSE IF resp.errMsg # ""
             THEN [requests |-> sent, resps |-> <<resp>>, err |-> resp.errMsg, val |-> Nil]
             ELSE [requests |-> sent, resps |-> <<resp>>, err |-> NoErr,
                   val |-> [remote |-> remote, size |-> resp.bytes,
                            modTime |-> resp.createdAt, url |-> resp.secureURL,
                            md5sum |-> resp.etag]]

\* the upload requests of one call, each with the logical path it was sent for
UploadsOf(remote, reqs) ==
    { [remote |-> remote, overwrite |-> reqs[k].overwrite,
       publicID |-> reqs[k].publicID] : k \in DOMAIN reqs }

Put ==
    /\ pc = "idle"
    /\ \E remote \in Remotes, size \in SrcSizes, options \in PutOptions,
          resp \in UploadResponses :
         LET out == PutOutcome(remote, size, options, resp)
         IN  /\ arg' = [remote |-> remote, size |-> size, options |-> options, recv |-> Nil]
             /\ requests' = out.requests
             /\ resps' = out.resps
             /\ ret' = [err |-> out.err, val |-> out.val]
             /\ uploads' = uploads \cup UploadsOf(remote, out.requests)
    /\ op' = "Put"
    /\ pc' = "done"
    /\ UNCHANGED <<optimistic, root, calls, cld, retry, asset, slept, o, nextCursor, entries, dirs,
                   remoteFolders, remoteAssets, i, count>>

\* UpdatedObject that takes the modification time of the uploaded object too
UpdatedObjectCreateTime(obj, uo) ==
    [obj EXCEPT !.size = uo.size, !.modTime = uo.modTime, !.url = uo.url,
                !.md5sum = uo.md5sum]

\* the fields Update assigns from the object Put returned; time.Now() is "now"
UpdatedObject(obj, uo) ==
    [obj EXCEPT !.size = uo.size, !.modTime = "now", !.url = uo.url,
                !.md5sum = uo.md5sum]

Update ==
    /\ pc = "idle"
    /\ \E size \in SrcSizes, options \in PutOptions, resp \in UploadResponses :
         LET out == PutOutcome(o.remote, size, Append(options, UpdateModeOption(TRUE)), resp)
         IN  /\ arg' = [remote |-> o.remote, size |-> size, options |-> options, recv |-> o]
             /\ requests' = out.requests
             /\ resps' = out.resps
             /\ ret' = [err |-> out.err, val |-> Nil]
             /\ uploads' = uploads \cup UploadsOf(o.remote, out.requests)
             /\ IF out.err # NoErr
                THEN o' = o
                ELSE o' = UpdatedObject(o, out.val)
    /\ op' = "Update"
    /\ pc' = "done"
    /\ UNCHANGED <<optimistic, root, calls, cld, retry, asset, slept, nextCursor, entries, dirs,
                   remoteFolders, remoteAssets, i, count>>

InitPut == Init /\ ~optimistic

NextPut ==
    \/ Put
    \/ Update
    \/ Return

SpecPut == InitPut /\ [][NextPut]_vars

-----------------------------------------------------------------------------
(* Claims on Put and Update                                                *)

\* C10: Put with a source of declared size 0 fails with the empty-upload
\* error and sends nothing to the remote; so does Update, which also leaves
\* the fields of its object as they were.
C10_EmptyUpload ==
    (op \in {"Put", "Update"} /\ pc = "done" /\ arg.size = 0) =>
        /\ ret = [err |-> ErrorCantUploadEmptyFiles, val |-> Nil]
        /\ requests = <<>>
        /\ op = "Update" => o = arg.recv

C10_Witness ==
    /\ op = "Update" /\ pc = "done" /\ arg.size = 0
    /\ ret.err = ErrorCantUploadEmptyFiles
    /\ o.modTime = "now"

C10_WitnessPut ==
    /\ op = "Put" /\ pc = "done" /\ arg.size = 0
    /\ ret.err = ErrorCantUploadEmptyFiles

\* an upload request was sent by the finished Put or Update
Uploaded == op \in {"Put", "Update"} /\ pc = "done" /\ Len(requests) = 1

\* the caller's options name update mode
AsksUpdateMode == UpdateModeOption(TRUE) \in { arg.options[k] : k \in DOMAIN arg.options }

\* C11: the upload request of Put asks for overwrite and invalidate, both,
\* exactly when update mode is among the caller's options; an upload issued
\* through Update always asks for both; a Put without update mode asks for
\* neither.
C11_OverwriteIffUpdateMode ==
    Uploaded =>
        /\ requests[1].overwrite = requests[1].invalidate
        /\ op = "Put" => (requests[1].overwrite <=> AsksUpdateMode)
        /\ op = "Update" => requests[1].overwrite

C11_Witness ==
    /\ Uploaded /\ op = "Update"
    /\ arg.options = <<UpdateModeOption(FALSE)>>
    /\ requests[1].overwrite /\ requests[1].invalidate

C11_WitnessPlain ==
    /\ Uploaded /\ op = "Put"
    /\ arg.options = <<UpdateModeOption(FALSE)>>
    /\ ~requests[1].overwrite /\ ~requests[1].invalidate

\* the logical path p cut at its last separator
ParentOf(p) == IF LastSlash(p) = 0 THEN <<>> ELSE SubSeq(p, 1, LastSlash(p) - 1)

LeafOf(p) == SubSeq(p, LastSlash(p) + 1, Len(p))

\* the encoded folder of the parent of p under the filesystem root, joined
\* with the encoded leaf name of p
ExpectedID(p) ==
    Join(Join(FromStandardPath(root), FromStandardPath(ParentOf(p))),
         FromStandardName(LeafOf(p)))

\* C12: under one filesystem root, all uploads sent for one logical path, by
\* Put or by Update, with any declared size and with or without update mode,
\* carry one identifier: the encoded parent folder joined with the encoded
\* leaf name.
C12_DeterministicID ==
    \A u \in uploads :
        /\ u.publicID = ExpectedID(u.remote)
        /\ \A v \in uploads : v.remote = u.remote => v.publicID = u.publicID

C12_Witness ==
    /\ root = <<"r">>
    /\ Uploaded /\ op = "Update" /\ arg.size = -1
    /\ arg.remote = <<"a", Slash, Amp>>
    /\ requests[1].publicID = <<"r", Slash, "a", Slash, FwAmp>>
    /\ \E u \in uploads : u.remote = arg.remote /\ ~u.overwrite

\* the Directory entries among es, as positions
DirPositions(es) == { k \in DOMAIN es : es[k].kind = "dir" }

\* C13: the entries one List call has collected, and the list it returns,
\* never hold two Directory entries of the same name, whether the name came
\* from several pages of the folder listing or from several folder paths
\* below the same child.
C13_NoDuplicateDirs ==
    /\ \A j, k \in DirPositions(entries) :
         entries[j].remote = entries[k].remote => j = k
    /\ ListSucceeded =>
         \A j, k \in DirPositions(ret.val) :
             ret.val[j].remote = ret.val[k].remote => j = k

\* x is on the first page, x/z on the second: one entry for x is returned
C13_Witness ==
    /\ ListSucceeded
    /\ Len(remoteFolders) >= 2
    /\ <<"x">> \in { remoteFolders[1][j] : j \in DOMAIN remoteFolders[1] }
    /\ <<"x", Slash, "z">> \in { remoteFolders[2][j] : j \in DOMAIN remoteFolders[2] }
    /\ Len(requests) >= 3
    /\ Cardinality({ k \in DirPositions(ret.val) :
                       ret.val[k].remote = Join(arg.dir, <<"x">>) }) = 1

\* an answer that is an error payload with message m
IsPayload(r, m) == ~r.err /\ r.errMsg = m

\* C14: an error payload whose message starts with "Can't find folder with
\* path", on any page of the folder sub-listing of List or in the answer to
\* the delete request of Rmdir, makes the operation fail with
\* fs.ErrorDirNotFound; a payload with another message makes it fail with
\* another error; a folder page without folders and without error lets List
\* go on, and List fails with fs.ErrorDirNotFound for no other reason than
\* that message.
C14_MissingFolderDistinct ==
    /\ op = "List" =>
         /\ \A k \in DOMAIN resps :
              requests[k].api = "SubFolders" =>
                /\ IsPayload(resps[k], MsgNoFolder) =>
                     pc = "done" /\ ret = [err |-> ErrorDirNotFound, val |-> Nil]
                /\ (IsPayload(resps[k], MsgOther)
                      \/ IsPayload(resps[k], MsgNoFolderInside)) =>
                     /\ pc = "done" /\ ret.val = Nil
                     /\ ret.err \notin {NoErr, ErrorDirNotFound}
                /\ (k = Len(resps) /\ IsPage(resps[k]) /\ resps[k].folders = <<>>) =>
                     pc \in {"folders", "assets"} /\ ret = Nil
         /\ (pc = "done" /\ ret.err = ErrorDirNotFound) =>
              \E k \in DOMAIN resps :
                  requests[k].api = "SubFolders" /\ IsPayload(resps[k], MsgNoFolder)
    /\ (op = "Rmdir" /\ pc = "done") =>
         /\ IsPayload(resps[1], MsgNoFolder) =>
              ret = [err |-> ErrorDirNotFound, val |-> Nil]
         /\ (IsPayload(resps[1], MsgOther) \/ IsPayload(resps[1], MsgNoFolderInside)
               \/ IsPayload(resps[1], MsgNotEmpty)) =>
              ret.val = Nil /\ ret.err \notin {NoErr, ErrorDirNotFound}
         /\ ret.err = ErrorDirNotFound => IsPayload(resps[1], MsgNoFolder)

\* the missing-folder message arrives on the second folder page
C14_Witness ==
    /\ op = "List" /\ pc = "done"
    /\ Len(resps) = 2 /\ IsPage(resps[1])
    /\ IsPayload(resps[2], MsgNoFolder)
    /\ ret.err = ErrorDirNotFound

C14_WitnessRmdir ==
    /\ op = "Rmdir" /\ pc = "done"
    /\ IsPayload(resps[1], MsgNoFolder)
    /\ ret.err = ErrorDirNotFound

C14_WitnessOther ==
    /\ op = "Rmdir" /\ pc = "done"
    /\ IsPayload(resps[1], MsgNotEmpty)
    /\ ret.err \notin {NoErr, ErrorDirNotFound}

C14_WitnessEmptyPage ==
    /\ ListSucceeded
    /\ \A k \in DOMAIN resps : IsPage(resps[k])
    /\ resps[1].folders = <<>>

-----------------------------------------------------------------------------
(* The path codec on its own                                               *)

MaxLen == 3

\* the characters the codec is tried on
CodecAlphabet == {"a", Slash, Amp, FwAmp, DQuote, FwDQuote, FwSlash, QuoteRune, Ctl, CtlPic}

CodecInputs == UNION { [1..n -> CodecAlphabet] : n \in 0..MaxLen }

\* an Fs and a string handed to its codec
InitCodec ==
    /\ optimistic = FALSE
    /\ root = <<>>
    /\ o = SomeObject
    /\ op = "idle"
    /\ pc = "idle"
    /\ arg \in { [s |-> s] : s \in CodecInputs }
    /\ retry = 0
    /\ asset = Nil
    /\ requests = <<>>
    /\ resps = <<>>
    /\ slept = <<>>
    /\ ret = Nil
    /\ nextCursor = <<>>
    /\ entries = <<>>
    /\ dirs = {}
    /\ remoteFolders = <<>>
    /\ remoteAssets = <<>>
    /\ i = 0
    /\ count = 0
    /\ uploads = {}
    /\ cld = [folders |-> {}, assets |-> {}]
    /\ calls = [p \in Callers |-> IdleFrame]

\* the string encoded as a name and decoded again
CodecName ==
    /\ pc = "idle"
    /\ op' = "CodecName"
    /\ pc' = "done"
    /\ ret' = [encoded |-> FromStandardName(arg.s),
               decoded |-> ToStandardName(FromStandardName(arg.s))]
    /\ UNCHANGED <<optimistic, root, calls, uploads, cld, arg, retry, asset, requests, resps,
                   slept, o, nextCursor, entries, dirs, remoteFolders, remoteAssets, i,
                   count>>

\* the string encoded as a path and decoded again
CodecPath ==
    /\ pc = "idle"
    /\ op' = "CodecPath"
    /\ pc' = "done"
    /\ ret' = [encoded |-> FromStandardPath(arg.s),
               decoded |-> ToStandardPath(FromStandardPath(arg.s))]
    /\ UNCHANGED <<optimistic, root, calls, uploads, cld, arg, retry, asset, requests, resps,
                   slept, o, nextCursor, entries, dirs, remoteFolders, remoteAssets, i,
                   count>>

NextCodec ==
    \/ CodecName
    \/ CodecPath

SpecCodec == InitCodec /\ [][NextCodec]_vars

Coded == op \in {"CodecName", "CodecPath"} /\ pc = "done"

Holds(s, c) == \E k \in DOMAIN s : s[k] = c

\* C15: every string over text, separators, quotes, ampersands, control
\* characters and the placeholder U+FF06 comes back unchanged from
\* ToStandardName(FromStandardName(s)) and from
\* ToStandardPath(FromStandardPath(s)).
C15_RoundTrip == Coded => ret.decoded = arg.s

\* the strings that do come back: those without the placeholder; and no
\* encoded string holds an ampersand
C15_RoundTripWithoutPlaceholder ==
    Coded => /\ ~Holds(arg.s, FwAmp) => ret.decoded = arg.s
             /\ ~Holds(ret.encoded, Amp)

\* what the placeholder comes back as
C15_PlaceholderLost ==
    /\ Coded
    /\ arg.s = <<FwAmp>>
    /\ ret.encoded = <<FwAmp>>
    /\ ret.decoded = <<Amp>>

-----------------------------------------------------------------------------
(* Put, Mkdir, Rmdir and List on one account                               *)

\* the paths Put is called with here
CldRemotes ==
    { <<"a", Slash, "b", Slash, "f", ".", "t", "x", "t">>, <<"a", Slash, Amp>>,
      <<"a", Slash, FwAmp>> }

\* the number of bytes the reader of a source of declared size `size` holds
ContentLength(size) == IF size = -1 THEN 7 ELSE size

\* the asset the account keeps for an upload answered with resp
CldAsset(params, resp) ==
    [publicID |-> params.publicID, assetFolder |-> TrimSlash(params.assetFolder),
     displayName |-> params.displayName, resourceType |-> "image", type |-> "upload",
     bytes |-> resp.bytes, createdAt |-> resp.createdAt, uploadedAt |-> resp.createdAt,
     secureURL |-> resp.secureURL, etag |-> resp.etag]

\* the account c after the upload: one asset per public identifier
CldUpload(c, params, resp) ==
    [c EXCEPT !.assets = { a \in @ : a.publicID # params.publicID }
                           \cup {CldAsset(params, resp)}]

\* what f.cld.Upload.Upload hands back for n bytes of content, and the
\* account after it: a failure, or the asset is stored; an upload that does
\* not ask for overwrite may also be answered with the asset already there
UploadCldResponses(params, n) ==
    { [resp |-> r, cld |-> cld] : r \in { x \in UploadResponses : x.err \/ x.errMsg # "" } }
    \cup { [resp |-> r, cld |-> CldUpload(cld, params, r)] :
             r \in { x \in UploadResponses : ~x.err /\ x.errMsg = "" /\ x.bytes = n } }
    \cup { [resp |-> [err |-> FALSE, errMsg |-> "", bytes |-> a.bytes,
                      createdAt |-> a.createdAt, secureURL |-> a.secureURL,
                      etag |-> a.etag],
            cld |-> cld] :
             a \in { x \in cld.assets : x.publicID = params.publicID /\ ~params.overwrite } }

\* Put, the upload answered by the account
PutCld ==
    /\ pc = "idle"
    /\ \E remote \in CldRemotes, size \in SrcSizes, options \in PutOptions :
         \E res \in UploadCldResponses(UploadParams(remote, options), ContentLength(size)) :
           LET out == PutOutcome(remote, size, options, res.resp)
           IN  /\ arg' = [remote |-> remote, size |-> size, options |-> options,
                          recv |-> Nil]
               /\ requests' = out.requests
               /\ resps' = out.resps
               /\ ret' = [err |-> out.err, val |-> out.val]
               /\ uploads' = uploads \cup UploadsOf(remote, out.requests)
               /\ cld' = IF out.requests = <<>> THEN cld ELSE res.cld
    /\ op' = "Put"
    /\ pc' = "done"
    /\ UNCHANGED <<optimistic, root, calls, retry, asset, slept, o, nextCursor, entries,
                   dirs, remoteFolders, remoteAssets, i, count>>

\* the sequences that hold every element of the set S once
Orderings(S) ==
    { f \in [1..Cardinality(S) -> S] : \A x \in S : \E k \in DOMAIN f : f[k] = x }

\* the folders of the account right below folder p, each as its path under q,
\* the path the request names p by
CldSubFolders(c, q) ==
    LET p == TrimSlash(q)
    IN  { SubSeq(f, Len(q) + 1, Len(f)) :
            f \in { g \in CldFolders(c) :
                      /\ g # p
                      /\ Ancestors(g) \ {g} = Ancestors(p) } }

\* the assets of the account whose asset folder is the folder q names
CldAssetsIn(c, q) == { a \in c.assets : a.assetFolder = TrimSlash(q) }

\* List, its two listings served from the account: one page each (the page
\* size of 500 is not reached), no page at all for a folder that is missing
CallListCld ==
    /\ \E dir \in Dirs :
         /\ StartCall("List", "folders", [dir |-> dir])
         /\ LET q == RemotePrefix(dir)
            IN  IF q # <<>> /\ TrimSlash(q) \notin CldFolders(cld)
                THEN remoteFolders' = <<>> /\ remoteAssets' = <<>>
                ELSE /\ remoteFolders' \in { <<pg>> : pg \in Orderings(CldSubFolders(cld, q)) }
                     /\ remoteAssets' \in { <<pg>> : pg \in Orderings(CldAssetsIn(cld, q)) }
    /\ i' = 0
    /\ count' = 0
    /\ UNCHANGED <<optimistic, root, calls, uploads, cld, o>>

\* the admin.SearchAsset the account hands out for an asset it keeps
CldSearchAsset(a) ==
    [publicID |-> a.publicID, resourceType |-> a.resourceType, type |-> a.type,
     bytes |-> a.bytes, uploadedAt |-> a.uploadedAt, secureURL |-> a.secureURL,
     etag |-> a.etag]

\* the answers of the account c to a search query: the assets of that asset
\* folder and display name, one per answer (MaxResults is 1), with a cursor
\* when there are more
CldSearch(c, query) ==
    LET found == { a \in c.assets : /\ a.assetFolder = TrimSlash(query.assetFolder)
                                    /\ a.displayName = query.displayName }
    IN  IF found = {}
        THEN { [err |-> FALSE, errMsg |-> "", assets |-> <<>>, nextCursor |-> ""] }
        ELSE { [err |-> FALSE, errMsg |-> "", assets |-> <<CldSearchAsset(a)>>,
                nextCursor |-> IF Cardinality(found) > 1 THEN "cursor" ELSE ""] :
                 a \in found }

\* what f.cld.Admin.Search hands back on the account: a failure or its answer
CldSearchResponses(query) ==
    { r \in SearchResponses : r.err \/ r.errMsg # "" } \cup CldSearch(cld, query)

CallNewObjectCld ==
    /\ \E remote \in CldRemotes : StartCall("NewObject", "search", [remote |-> remote])
    /\ i' = 0
    /\ count' = 0
    /\ UNCHANGED <<optimistic, root, calls, uploads, cld, o, remoteFolders, remoteAssets>>

\* one query of getCLDAsset on behalf of NewObject, answered by the account
NewObjectSearchCld ==
    /\ op = "NewObject" /\ pc = "search"
    /\ \E r \in CldSearchResponses(SearchQuery(arg.remote)) :
         /\ requests' = Append(requests, SearchQuery(arg.remote))
         /\ resps' = Append(resps, r)
         /\ IF ShouldRetry(r, retry)
            THEN /\ slept' = Append(slept, 1)
                 /\ retry' = retry + 1
                 /\ UNCHANGED <<pc, ret, asset>>
            ELSE /\ LET out == ResolveOutcome(r)
                    IN  /\ asset' = out.asset
                        /\ ret' = IF out.err # NoErr
                                  THEN [err |-> out.err, val |-> Nil]
                                  ELSE [err |-> NoErr,
                                        val |-> NewObjectFrom(arg.remote, out.asset)]
                 /\ pc' = "done"
                 /\ UNCHANGED <<slept, retry>>
    /\ UNCHANGED <<optimistic, root, calls, uploads, cld, op, arg, o, nextCursor, entries, dirs,
                   remoteFolders, remoteAssets, i, count>>

InitCld == Init /\ ~optimistic /\ o = SomeObject

NextCld ==
    \/ Mkdir
    \/ Rmdir
    \/ PutCld
    \/ CallNewObjectCld
    \/ NewObjectSearchCld
    \/ CallListCld
    \/ ListFolders
    \/ ListAssets
    \/ Return

SpecCld == InitCld /\ [][NextCld]_vars

-----------------------------------------------------------------------------
(* Claims on one account                                                   *)

DirAB == <<"a", Slash, "b">>
FileABF == <<"a", Slash, "b", Slash, "f", ".", "t", "x", "t">>

\* the account, empty at first, after Mkdir("a/b") and a Put of 10 bytes to
\* "a/b/f.txt" went through
CldAfterMkdirPut ==
    { CldUpload(CldCreateFolder([folders |-> {}, assets |-> {}],
                                FromStandardFullPath(DirAB)),
                UploadParams(FileABF, <<>>), r) :
        r \in { x \in UploadResponses : ~x.err /\ x.errMsg = "" /\ x.bytes = 10 } }

\* every answer of the running List is the account's own: no outage, no
\* error payload but the missing-folder one for a folder that is missing
AccountAnswered ==
    \A k \in DOMAIN resps :
        \/ IsPage(resps[k])
        \/ /\ requests[k].api = "SubFolders"
           /\ IsPayload(resps[k], MsgNoFolder)
           /\ TrimSlash(requests[k].folder) \notin CldFolders(cld)

C16_WitnessParent ==
    /\ op = "List" /\ pc = "done" /\ cld \in CldAfterMkdirPut /\ AccountAnswered
    /\ arg.dir = <<"a">>
    /\ ret.val = <<NewDir(DirAB)>>

-----------------------------------------------------------------------------
(* Claims on the requests of List, Open and the resolver                   *)

\* C17: in one List call the first request of the asset listing carries no
\* cursor, however many pages the folder listing had; every later request of
\* either listing carries the cursor the preceding page of the same listing
\* returned.
C17_IndependentCursors ==
    op = "List" =>
        \A k \in DOMAIN requests :
            /\ (requests[k].api = "AssetsByAssetFolder"
                  /\ (k = 1 \/ requests[k - 1].api = "SubFolders")) =>
                 requests[k].nextCursor = NoCursor
            /\ (k > 1 /\ requests[k].api = requests[k - 1].api) =>
                 requests[k].nextCursor = resps[k - 1].nextCursor

\* the cursor of the last-but-one folder page on the first asset request
C17_StaleCursor ==
    /\ op = "List" /\ Len(requests) = 3
    /\ requests[2].api = "SubFolders" /\ requests[3].api = "AssetsByAssetFolder"
    /\ resps[2].nextCursor = NoCursor
    /\ requests[3].nextCursor = resps[1].nextCursor
    /\ requests[3].nextCursor # NoCursor

\* C18: a transport failure on attempt k < 7 of an Open is followed by a wait
\* of k seconds and by attempt k + 1, not by a return; Open returns a
\* transport failure only when it is the 7th attempt that failed.
C18_TransportRetry ==
    op = "Open" =>
        /\ \A k \in DOMAIN resps :
             (resps[k].err /\ k < MaxAttempts) =>
                 /\ Len(slept) >= k /\ slept[k] = k
                 /\ pc = "done" => Len(requests) > k
        /\ (pc = "done" /\ ret.err # NoErr) =>
             Len(requests) = MaxAttempts /\ resps[MaxAttempts].err

\* the first attempt fails in transport and Open returns the failure at once
C18_ReturnedAtOnce ==
    /\ op = "Open" /\ pc = "done"
    /\ Len(requests) = 1 /\ resps[1].err
    /\ slept = <<>>
    /\ ret = [err |-> "failed download", val |-> Nil]

\* C19: without optimistic search, a transport error or an error payload of
\* the search query comes back from the resolve as an error that is not
\* fs.ErrorObjectNotFound; fs.ErrorObjectNotFound comes back only when the
\* query went through and matched no asset.
C19_FailureKindsApart ==
    (~optimistic /\ ResolveFinished) =>
        /\ (resps[1].err \/ resps[1].errMsg # "") =>
             ResolveErr \notin {NoErr, ErrorObjectNotFound}
        /\ ResolveErr = ErrorObjectNotFound =>
             ~resps[1].err /\ resps[1].errMsg = "" /\ Len(resps[1].assets) = 0

\* the search failed in transport and the caller is told the object is missing
C19_TransportAsNotFound ==
    /\ ~optimistic /\ op = "NewObject" /\ pc = "done"
    /\ Len(requests) = 1 /\ resps[1].err
    /\ ret = [err |-> ErrorObjectNotFound, val |-> Nil]

\* the same for an error payload in a response that arrived
C19_PayloadAsNotFound ==
    /\ ~optimistic /\ op = "Remove" /\ pc = "done"
    /\ Len(requests) = 1 /\ ~resps[1].err /\ resps[1].errMsg # ""
    /\ ret = [err |-> ErrorObjectNotFound, val |-> Nil]

\* C20: a page of the asset listing that comes back as a transport error, or
\* as an error payload inside a response that arrived, ends List with a
\* failure and without entries.
C20_AssetFailureFailsList ==
    op = "List" =>
        \A k \in DOMAIN resps :
            (requests[k].api = "AssetsByAssetFolder" /\ ~IsPage(resps[k])) =>
                /\ pc = "done"
                /\ ret.err # NoErr
                /\ ret.val = Nil

\* the asset page is an error payload and List returns the folders it had
C20_PayloadIgnored ==
    /\ ListSucceeded
    /\ Len(requests) = 2
    /\ requests[2].api = "AssetsByAssetFolder"
    /\ IsPayload(resps[2], MsgOther)
    /\ ret.val = entries

-----------------------------------------------------------------------------
(* The Object methods and the operations around one Object                 *)

ErrUnsupported == "hash.ErrUnsupported"

HashTypes == {"MD5", "SHA1"}

\* Object.Hash
Hash ==
    /\ pc = "idle"
    /\ \E ty \in HashTypes :
         /\ arg' = [ty |-> ty]
         /\ ret' = IF ty # "MD5" THEN [err |-> ErrUnsupported, val |-> ""]
                   ELSE [err |-> NoErr, val |-> o.md5sum]
    /\ op' = "Hash"
    /\ pc' = "done"
    /\ UNCHANGED <<optimistic, root, calls, uploads, cld, retry, asset, requests, resps, slept,
                   o, nextCursor, entries, dirs, remoteFolders, remoteAssets, i, count>>

\* Object.SetModTime
SetModTime ==
    /\ pc = "idle"
    /\ \E modTime \in {"t1", "t9"} : arg' = [modTime |-> modTime]
    /\ ret' = [err |-> ErrorCantSetModTime, val |-> Nil]
    /\ op' = "SetModTime"
    /\ pc' = "done"
    /\ UNCHANGED <<optimistic, root, calls, uploads, cld, retry, asset, requests, resps, slept,
                   o, nextCursor, entries, dirs, remoteFolders, remoteAssets, i, count>>

InitObject == Init /\ ~optimistic /\ root = <<>> /\ o = SomeObject

\* every operation that is handed the Object or that runs beside it
NextObject ==
    \/ Update
    \/ Hash
    \/ SetModTime
    \/ CallOpen
    \/ OpenAttempt
    \/ CallNewObject
    \/ NewObjectSearch
    \/ CallRemove
    \/ RemoveSearch
    \/ RemoveDestroy
    \/ CallList
    \/ ListFolders
    \/ ListAssets
    \/ Return

SpecObject == InitObject /\ [][NextObject]_vars

\* the step is a call of Update, from its start to its return value
UpdateStep == pc = "idle" /\ op' = "Update"

\* C21: Update uploads to the path of its Object and in update mode; when
\* the upload succeeds the size, URL and hash of the Object become those of
\* the upload result and its modification time the current time, the remote
\* path stays; when Update fails the Object is as it was. No step of Open,
\* Hash, SetModTime, List, NewObject or Remove changes the Object.
C21_UpdateFrame ==
    [][ /\ o' # o => (UpdateStep /\ ret'.err = NoErr)
        /\ UpdateStep =>
             /\ o'.remote = o.remote
             /\ \A k \in DOMAIN requests' :
                  /\ requests'[k].publicID = ExpectedID(o.remote)
                  /\ requests'[k].overwrite /\ requests'[k].invalidate
             /\ (\E k \in DOMAIN resps' : resps'[k].err \/ resps'[k].errMsg # "") =>
                  ret'.err # NoErr
             /\ IF ret'.err = NoErr
                THEN /\ Len(resps') = 1
                     /\ o'.size = resps'[1].bytes
                     /\ o'.url = resps'[1].secureURL
                     /\ o'.md5sum = resps'[1].etag
                     /\ o'.modTime = "now"
                ELSE o' = o
      ]_vars

\* an Update that went through: other size, current time, same path
C21_Witness ==
    /\ op = "Update" /\ pc = "done" /\ ret.err = NoErr
    /\ o.remote = arg.recv.remote
    /\ o.size = resps[1].bytes /\ o.size # arg.recv.size
    /\ o.modTime = "now" /\ resps[1].createdAt # "now"

\* an Update whose upload failed
C21_WitnessFailed ==
    /\ op = "Update" /\ pc = "done" /\ Len(resps) = 1 /\ resps[1].errMsg # ""
    /\ ret.err # NoErr
    /\ o = arg.recv

\* C22: an Open without range and without seek option, whose first response
\* arrives and declares accept-ranges and a content-length equal to the size
\* of the Object, returns the body of that response after one request and
\* without a wait.
C22_WholeObjectOneRequest ==
    (op = "Open" /\ arg.options.type = "none" /\ Len(resps) >= 1
       /\ Match(resps[1], o.size)) =>
        /\ pc = "done"
        /\ Len(requests) = 1
        /\ slept = <<>>
        /\ ret = [err |-> NoErr, val |-> resps[1].body]

\* the whole object is asked for seven times, each answer declares its size
C22_SevenRequests ==
    /\ op = "Open" /\ pc = "done" /\ arg.options.type = "none"
    /\ count = 0
    /\ Len(requests) = MaxAttempts
    /\ \A k \in DOMAIN resps : Match(resps[k], o.size)
    /\ slept = <<1, 2, 3, 4, 5, 6, 7>>
    /\ ret = [err |-> NoErr, val |-> resps[MaxAttempts].body]

\* the Objects x and y agree on the five fields of a FileObject
SameFields(x, y) ==
    /\ x.remote = y.remote
    /\ x.size = y.size
    /\ x.url = y.url
    /\ x.modTime = y.modTime
    /\ x.md5sum = y.md5sum

\* C23: for an asset the account keeps, the FileObject in the result of List
\* of its parent directory and the FileObject NewObject builds for its path,
\* on the same account, have the same remote path, size, content URL,
\* modification time and MD5 hash.
C23_SameDescription ==
    (ListSucceeded /\ AccountAnswered) =>
        \A k \in DOMAIN ret.val :
            ret.val[k].kind = "file" =>
                \A r \in CldSearch(cld, SearchQuery(ret.val[k].remote)) :
                    ResolveOutcome(r).err = NoErr =>
                        SameFields(NewObjectFrom(ret.val[k].remote,
                                                 ResolveOutcome(r).asset),
                                   ret.val[k])

\* List gives the asset no hash, NewObject gives it the etag of the account
C23_HashDiffers ==
    /\ ListSucceeded /\ AccountAnswered
    /\ Len(ret.val) >= 1 /\ ret.val[Len(ret.val)].kind = "file"
    /\ ret.val[Len(ret.val)].md5sum = ""
    /\ \E r \in CldSearch(cld, SearchQuery(ret.val[Len(ret.val)].remote)) :
         /\ ResolveOutcome(r).err = NoErr
         /\ NewObjectFrom(ret.val[Len(ret.val)].remote, ResolveOutcome(r).asset).md5sum
              # ""

-----------------------------------------------------------------------------
(* Calls that run side by side on one account                              *)

\* the variables of the call that runs alone, and the Object
frame ==
    <<op, pc, arg, retry, asset, requests, resps, slept, ret, o, nextCursor, entries,
      dirs, remoteFolders, remoteAssets, i, count>>

\* the account c and its answer to a Destroy: the asset of that identifier
\* goes and the result is "ok"; without such an asset the result is "not found"
CldDestroy(c, params) ==
    IF \E a \in c.assets : a.publicID = params.publicID
    THEN [resp |-> [err |-> FALSE, errMsg |-> "", result |-> "ok"],
          cld |-> [c EXCEPT !.assets = { a \in @ : a.publicID # params.publicID }]]
    ELSE [resp |-> [err |-> FALSE, errMsg |-> "", result |-> "not found"], cld |-> c]

\* what f.cld.Upload.Destroy hands back on the account, and the account after
\* it: a failure, or the account's answer
DestroyCldResponses(params) ==
    { [resp |-> r, cld |-> cld] : r \in { x \in DestroyResponses : x.err \/ x.errMsg # "" } }
    \cup {CldDestroy(cld, params)}

\* caller p starts Remove for a path
RemoveCall(p) ==
    /\ calls[p].pc = "idle"
    /\ \E remote \in CldRemotes :
         calls' = [calls EXCEPT ![p] = [op |-> "Remove", pc |-> "search",
                                        remote |-> remote, retry |-> 0, asset |-> Nil,
                                        resps |-> <<>>, ret |-> Nil]]
    /\ UNCHANGED <<optimistic, root, uploads, cld, frame>>

\* one query of getCLDAsset in the Remove of caller p, answered by the account
RemoveSearchCld(p) ==
    /\ calls[p].op = "Remove" /\ calls[p].pc = "search"
    /\ \E r \in CldSearchResponses(SearchQuery(calls[p].remote)) :
         LET c == calls[p]
             out == ResolveOutcome(r)
         IN  calls' = [calls EXCEPT ![p] =
                 IF ShouldRetry(r, c.retry)
                 THEN [c EXCEPT !.resps = Append(@, r), !.retry = @ + 1]
                 ELSE IF RemoveProceeds(out)
                 THEN [c EXCEPT !.resps = Append(@, r), !.asset = out.asset,
                                !.pc = "destroy"]
                 ELSE [c EXCEPT !.resps = Append(@, r),
                                !.ret = [err |-> out.err, val |-> Nil], !.pc = "done"]]
    /\ UNCHANGED <<optimistic, root, uploads, cld, frame>>

\* the Destroy request in the Remove of caller p, answered by the account
RemoveDestroyCld(p) ==
    /\ calls[p].op = "Remove" /\ calls[p].pc = "destroy"
    /\ \E res \in DestroyCldResponses(DestroyParams(calls[p].asset)) :
         /\ calls' = [calls EXCEPT ![p] =
                [@ EXCEPT !.resps = Append(@, res.resp),
                          !.ret = [err |-> DestroyOutcome(res.resp), val |-> Nil],
                          !.pc = "done"]]
         /\ cld' = res.cld
    /\ UNCHANGED <<optimistic, root, uploads, frame>>

\* the call of caller p returns; its frame is gone
ReturnCall(p) ==
    /\ calls[p].pc = "done"
    /\ calls' = [calls EXCEPT ![p] = IdleFrame]
    /\ UNCHANGED <<optimistic, root, uploads, cld, frame>>

\* the fields Update assigns, in the order of its assignments
UpdateFields == <<"size", "modTime", "url", "md5sum">>

\* Put of caller p, the upload answered by the account
PutCall(p) ==
    /\ calls[p].pc = "idle"
    /\ \E remote \in CldRemotes, size \in SrcSizes, options \in PutOptions :
         \E res \in UploadCldResponses(UploadParams(remote, options), ContentLength(size)) :
           LET out == PutOutcome(remote, size, options, res.resp)
           IN  /\ calls' = [calls EXCEPT ![p] =
                      [op |-> "Put", pc |-> "done", remote |-> remote,
                       ret |-> [err |-> out.err, val |-> out.val]]]
               /\ uploads' = uploads \cup UploadsOf(remote, out.requests)
               /\ cld' = IF out.requests = <<>> THEN cld ELSE res.cld
    /\ UNCHANGED <<optimistic, root, frame>>

\* Update of caller p on the Object up to the return of its Put, the upload
\* answered by the account
UpdateCall(p) ==
    /\ calls[p].pc = "idle"
    /\ \E size \in SrcSizes, options \in PutOptions :
         LET opts == Append(options, UpdateModeOption(TRUE))
         IN  \E res \in UploadCldResponses(UploadParams(o.remote, opts), ContentLength(size)) :
               LET out == PutOutcome(o.remote, size, opts, res.resp)
               IN  /\ calls' = [calls EXCEPT ![p] =
                          IF out.err # NoErr
                          THEN [op |-> "Update", pc |-> "done", remote |-> o.remote,
                                uo |-> Nil, k |-> 0, ret |-> [err |-> out.err, val |-> Nil]]
                          ELSE [op |-> "Update", pc |-> "assign", remote |-> o.remote,
                                uo |-> out.val, k |-> 1, ret |-> Nil]]
                   /\ uploads' = uploads \cup UploadsOf(o.remote, out.requests)
                   /\ cld' = IF out.requests = <<>> THEN cld ELSE res.cld
    /\ UNCHANGED <<optimistic, root, frame>>

\* the next assignment of Update to a field of the Object; after the last
\* one Update returns
UpdateAssign(p) ==
    /\ calls[p].op = "Update" /\ calls[p].pc = "assign"
    /\ LET c == calls[p]
           field == UpdateFields[c.k]
       IN  /\ o' = [o EXCEPT ![field] = UpdatedObject(o, c.uo)[field]]
           /\ calls' = [calls EXCEPT ![p] =
                  IF c.k < Len(UpdateFields)
                  THEN [c EXCEPT !.k = @ + 1]
                  ELSE [c EXCEPT !.pc = "done", !.ret = [err |-> NoErr, val |-> Nil]]]
    /\ UNCHANGED <<optimistic, root, uploads, cld, op, pc, arg, retry, asset, requests,
                   resps, slept, ret, nextCursor, entries, dirs, remoteFolders,
                   remoteAssets, i, count>>

\* one Fs on an empty account; its calls come one after another
InitAssets == InitCld /\ root = <<>>

NextAssets ==
    \/ PutCall(1)
    \/ UpdateCall(1)
    \/ UpdateAssign(1)
    \/ RemoveCall(1)
    \/ RemoveSearchCld(1)
    \/ RemoveDestroyCld(1)
    \/ ReturnCall(1)

SpecAssets == InitAssets /\ [][NextAssets]_vars

\* the accounts that hold one asset, stored by a Put to remote on the empty
\* account, each with the upload requests made
CldAfterPut(remote) ==
    { [cld |-> CldUpload([folders |-> {}, assets |-> {}], UploadParams(remote, <<>>), r),
       uploads |-> UploadsOf(remote, <<UploadParams(remote, <<>>)>>)] :
        r \in { x \in UploadResponses : ~x.err /\ x.errMsg = "" } }

\* one Fs on an account that holds one asset; no call runs
InitRace ==
    /\ optimistic \in BOOLEAN
    /\ root \in Roots
    /\ o = SomeObject
    /\ op = "idle"
    /\ pc = "idle"
    /\ arg = Nil
    /\ retry = 0
    /\ asset = Nil
    /\ requests = <<>>
    /\ resps = <<>>
    /\ slept = <<>>
    /\ ret = Nil
    /\ nextCursor = <<>>
    /\ entries = <<>>
    /\ dirs = {}
    /\ remoteFolders = <<>>
    /\ remoteAssets = <<>>
    /\ i = 0
    /\ count = 0
    /\ \E remote \in CldRemotes : \E a \in CldAfterPut(remote) :
         cld = a.cld /\ uploads = a.uploads
    /\ calls = [p \in Callers |-> IdleFrame]

\* each caller runs one Remove, their steps in any order
NextRace ==
    \/ \E p \in Callers : RemoveCall(p)
    \/ \E p \in Callers : RemoveSearchCld(p)
    \/ \E p \in Callers : RemoveDestroyCld(p)

SpecRace == InitRace /\ [][NextRace]_vars

\* Open of caller p on the Object: opts.RootURL is read from o.url
OpenCall(p) ==
    /\ calls[p].pc = "idle"
    /\ \E opt \in OpenOptions :
         calls' = [calls EXCEPT ![p] = [op |-> "Open", pc |-> "count", options |-> opt,
                                        url |-> o.url, size |-> 0, count |-> 0, i |-> 1,
                                        ret |-> Nil]]
    /\ UNCHANGED <<optimistic, root, uploads, cld, frame>>

\* the option loop of Open: count is computed from o.size
OpenCount(p) ==
    /\ calls[p].op = "Open" /\ calls[p].pc = "count"
    /\ LET c == calls[p]
       IN  calls' = [calls EXCEPT ![p] =
               [c EXCEPT !.size = o.size, !.count = CountOf(c.options, o.size),
                         !.pc = "attempt"]]
    /\ UNCHANGED <<optimistic, root, uploads, cld, frame>>

\* one pass of the download loop in the Open of caller p, for the URL and the
\* count it holds, and the return when the loop ends
OpenFetch(p) ==
    /\ calls[p].op = "Open" /\ calls[p].pc = "attempt"
    /\ LET c == calls[p]
       IN  \E r \in CallResponses(c.i, c.count, c.size) :
             LET v == OpenVerdict(r, c.count)
             IN  calls' = [calls EXCEPT ![p] =
                     CASE v = "fail" ->
                            [c EXCEPT !.ret = [err |-> "failed download", val |-> Nil],
                                      !.pc = "done"]
                       [] v = "break" ->
                            [c EXCEPT !.ret = [err |-> NoErr, val |-> r.body], !.pc = "done"]
                       [] OTHER ->
                            IF c.i + 1 <= MaxAttempts
                            THEN [c EXCEPT !.i = @ + 1]
                            ELSE [c EXCEPT !.i = @ + 1,
                                           !.ret = [err |-> NoErr, val |-> r.body],
                                           !.pc = "done"]]
    /\ UNCHANGED <<optimistic, root, uploads, cld, frame>>

\* one Object in the hands of two callers
InitShared == InitCld /\ root = <<>> /\ op = "idle"

\* Update and Open on the Object, the steps of the callers in any order
NextShared ==
    \/ \E p \in Callers : UpdateCall(p)
    \/ \E p \in Callers : UpdateAssign(p)
    \/ \E p \in Callers : OpenCall(p)
    \/ \E p \in Callers : OpenCount(p)
    \/ \E p \in Callers : OpenFetch(p)
    \/ \E p \in Callers : ReturnCall(p)

SpecShared == InitShared /\ [][NextShared]_vars

-----------------------------------------------------------------------------
(* Claims on calls on one account                                          *)

\* no two assets of the account have the same asset folder and display name
OneAssetPerCoordinate ==
    \A a, b \in cld.assets :
        (a.assetFolder = b.assetFolder /\ a.displayName = b.displayName) => a = b

\* no upload request made for one logical path names the identifier of an
\* upload request made for another one
OneIdentifierPerPath ==
    \A u, v \in uploads : u.remote # v.remote => u.publicID # v.publicID

\* getCLDAsset finds no second asset for any path
NeverAmbiguous ==
    \A remote \in CldRemotes \cup {o.remote} :
        \A r \in CldSearch(cld, SearchQuery(remote)) : ResolveOutcome(r).err # ErrDuplicate

\* C24: on an account that was empty at first and keeps one asset per public
\* identifier, after any sequence of Put, Update and Remove calls of one Fs no
\* two assets share asset folder and display name, no two uploads for
\* different logical paths name the same identifier, and the resolver never
\* finds a duplicate.
C24_NoDuplicates == OneAssetPerCoordinate /\ OneIdentifierPerPath /\ NeverAmbiguous

\* the part that does hold: one asset per coordinate, no ambiguous match
C24_NoDuplicateAssets == OneAssetPerCoordinate /\ NeverAmbiguous

\* Put("a/&") stored an asset and Put("a/" \o U+FF06) then named the same
\* identifier: the account keeps one asset for the two paths
C24_SharedIdentifier ==
    /\ calls[1].op = "Put" /\ calls[1].pc = "done" /\ calls[1].ret.err = NoErr
    /\ calls[1].remote = <<"a", Slash, FwAmp>>
    /\ \E u \in uploads :
         /\ u.remote = <<"a", Slash, Amp>>
         /\ u.publicID = ExpectedID(calls[1].remote)
    /\ Cardinality({ a \in cld.assets : a.publicID = <<"a", Slash, FwAmp>> }) = 1


\* both callers ran Remove for path remote to its end
BothRemoved(remote) ==
    \A p \in Callers :
        calls[p].op = "Remove" /\ calls[p].pc = "done" /\ calls[p].remote = remote

\* every answer the Remove of caller p got is the account's own
OwnAnswers(p) ==
    \A k \in DOMAIN calls[p].resps : ~calls[p].resps[k].err /\ calls[p].resps[k].errMsg = ""

\* the account held the asset of path remote before the calls
Stored(remote) == \E u \in uploads : u.remote = remote

\* C25: when two Remove calls for the same path, whose asset the account
\* holds, run with their steps in any order and the account answers every
\* request (a Destroy of a missing asset with the result "not found"), then
\* the asset is gone, exactly one call returns no error, and the other call
\* returns fs.ErrorObjectNotFound when its search found nothing (it ran after
\* the Destroy of the first) and the error "not found" of its own Destroy
\* otherwise.
C25_OneRemoveWins ==
    \A remote \in CldRemotes :
        (BothRemoved(remote) /\ Stored(remote) /\ \A p \in Callers : OwnAnswers(p)) =>
            /\ ~\E a \in cld.assets : a.publicID = ExpectedID(remote)
            /\ Cardinality({ p \in Callers : calls[p].ret.err = NoErr }) = 1
            /\ \A p \in Callers :
                 calls[p].ret.err # NoErr =>
                     calls[p].ret.err = IF calls[p].asset = Nil
                                        THEN ErrorObjectNotFound
                                        ELSE "not found"

\* both calls resolved the asset before either destroyed it: one is told "ok",
\* the other "not found"
C25_Witness ==
    /\ \E remote \in CldRemotes : BothRemoved(remote) /\ Stored(remote)
    /\ \A p \in Callers : OwnAnswers(p) /\ calls[p].asset # Nil
    /\ calls[1].ret.err = "not found"
    /\ calls[2].ret.err = NoErr
    /\ cld.assets = {}

\* the second call resolved after the Destroy of the first
C25_WitnessNotFound ==
    /\ \E remote \in CldRemotes : BothRemoved(remote) /\ Stored(remote)
    /\ \A p \in Callers : OwnAnswers(p)
    /\ calls[1].ret.err = NoErr
    /\ calls[2].asset = Nil /\ calls[2].ret.err = ErrorObjectNotFound
    /\ cld.assets = {}


\* the size and the URL of each version of the Object: the one it is created
\* with and the ones an upload result gives it
Versions ==
    { [size |-> SomeObject.size, url |-> SomeObject.url] }
    \cup { [size |-> r.bytes, url |-> r.secureURL] :
             r \in { x \in UploadResponses : ~x.err /\ x.errMsg = "" } }

\* C26: while Update runs on the Object, the URL and the size an Open of
\* another caller reads from it belong to one version of the Object, all from
\* before the Update or all from after it: Open never computes its count
\* from the size of one version while it fetches the URL of another.
C26_NoTornRead ==
    \A p \in Callers :
        (calls[p].op = "Open" /\ calls[p].pc \in {"attempt", "done"}) =>
            \E v \in Versions : calls[p].url = v.url /\ calls[p].size = v.size

\* Open read the URL before Update assigned anything and the size after the
\* first assignment of Update: the old URL is fetched with a count computed
\* from the new size
C26_TornRead ==
    /\ calls[1].op = "Update" /\ calls[1].pc = "assign" /\ calls[1].k = 2
    /\ calls[2].op = "Open" /\ calls[2].pc = "attempt"
    /\ calls[2].options.type = "seek"
    /\ calls[2].url = SomeObject.url
    /\ calls[2].size = calls[1].uo.size /\ calls[2].size # SomeObject.size
    /\ calls[2].count = calls[1].uo.size - 1
    /\ o.size = calls[1].uo.size /\ o.url = SomeObject.url

====
